---- MODULE Spec2Model ----
(***************************************************************************)
(* Verification model of the USDT ingestion engine of ledger-watchdog:     *)
(* the slot locator, the polling cycle (pollUsdtOnce / startUsdtPoller),   *)
(* the event extractor, the dedup set, the ingestion cursor and the        *)
(* transaction sink.                                                       *)
(***************************************************************************)
EXTENDS Integers, Sequences, FiniteSets, Bags, TLC

VARIABLES
    loc,       \* a slot locator call: block-time map, target, endSlot, results
    ex,        \* an extractor call: block, failing signatures, results
    sc,        \* the getBlock calls for one slot: outcomes, attempts, contribution
    mt,        \* the matching of one fetched transaction: transaction, event
    sd,        \* the size of the seen set over a run of cycles
    lv,        \* a call of solanaService.fetchRecentUsdtTransfers
    eq,        \* a run of cycles with the dedup guard beside the same run without it
    cc,        \* the RPC calls in flight in a mapPool call and in an extractor call
    fl,        \* the flag store and the POST /flags request being handled
    lk,        \* a GET /transactions/:sig request
    rq,        \* one rpc(method, params) call: the HTTP answer and its outcome
    ri,        \* writes to one transaction row: ingestion upserts and later updates
    sf,        \* FlagService.submitFlag calls in flight, step by step
    mp,        \* one mapPool(arr, limit, fn) call: the calls running and out
    tip,       \* the chain's newest confirmed slot when the poller last looked
    cursor,    \* prisma.ingestionCursor row of 'rpc_polling': lastSlot, 0 = no row
    txTable,   \* prisma.transaction rows, in insertion order
    seen,      \* poll-usdt.ts module-level Set of signatures
    cyc,       \* the pollUsdtOnce invocations in flight: a bag of their local states
    faults,    \* transient failures the environment may still inject
    hist       \* ghost: facts about past steps that the properties refer to

vars == <<loc, ex, sc, mt, sd, lv, eq, cc, fl, lk, rq, ri, sf, mp, tip, cursor, txTable, seen, cyc, faults, hist>>

\* the calls studied on their own, and the poller's state
late == <<ri, sf, mp>>
more == <<eq, cc, fl, lk, rq, late>>
studies == <<sc, mt, sd, lv, more>>
aux == <<loc, ex, studies>>
poller == <<tip, cursor, txTable, seen, cyc, faults, hist>>

----------------------------------------------------------------------------
(* Small helpers *)

Max(a, b) == IF a >= b THEN a ELSE b
Min(a, b) == IF a <= b THEN a ELSE b

\* JavaScript null for a block time (getBlockTime of a skipped slot)
NullTime == 0 - 1

----------------------------------------------------------------------------
(* Slot locator: poll-usdt.ts findStartSlotAtOrBefore                      *)
(* T is the chain's getBlockTime, a function on 1..endSlot                 *)

ProbeStep == 64
WideBack == 10000

GetBlockTime(T, s) == IF s \in DOMAIN T THEN T[s] ELSE NullTime

\* the `while (lo > 1)` loop that brackets [lo, hi]; yields <<lo, hi>>
RECURSIVE ProbeBack(_, _, _, _, _)
ProbeBack(T, targetTs, lo, hi, step) ==
    IF lo > 1
    THEN LET ts == GetBlockTime(T, lo) IN
         IF ts # NullTime /\ ts <= targetTs
         THEN <<lo, hi>>
         ELSE ProbeBack(T, targetTs, Max(1, lo - step * 2), lo, step * 2)
    ELSE <<lo, hi>>

\* a binary search that yields the insertion point, the final lo
RECURSIVE BinarySearchInsertionPoint(_, _, _, _, _)
BinarySearchInsertionPoint(T, targetTs, lo, hi, best) ==
    IF lo <= hi
    THEN LET mid == (lo + hi) \div 2
             ts  == GetBlockTime(T, mid) IN
         IF ts # NullTime /\ ts <= targetTs
         THEN BinarySearchInsertionPoint(T, targetTs, mid + 1, hi, mid)
         ELSE BinarySearchInsertionPoint(T, targetTs, lo, mid - 1, best)
    ELSE lo

\* a binary search that takes a skipped midpoint for an early one and goes right
RECURSIVE BinarySearchNullRight(_, _, _, _, _)
BinarySearchNullRight(T, targetTs, lo, hi, best) ==
    IF lo <= hi
    THEN LET mid == (lo + hi) \div 2
             ts  == GetBlockTime(T, mid) IN
         IF ts = NullTime \/ ts <= targetTs
         THEN BinarySearchNullRight(T, targetTs, mid + 1, hi, mid)
         ELSE BinarySearchNullRight(T, targetTs, lo, mid - 1, best)
    ELSE best

\* the binary search `while (lo <= hi)`; yields best
RECURSIVE BinarySearch(_, _, _, _, _)
BinarySearch(T, targetTs, lo, hi, best) ==
    IF lo <= hi
    THEN LET mid == (lo + hi) \div 2
             ts  == GetBlockTime(T, mid) IN
         IF ts = NullTime
         THEN BinarySearch(T, targetTs, lo, mid - 1, best)
         ELSE IF ts <= targetTs
              THEN BinarySearch(T, targetTs, mid + 1, hi, mid)
              ELSE BinarySearch(T, targetTs, lo, mid - 1, best)
    ELSE best

\* the getBlockTime calls of the `while (lo > 1)` loop
RECURSIVE ProbeBackCalls(_, _, _, _)
ProbeBackCalls(T, targetTs, lo, step) ==
    IF lo > 1
    THEN LET ts == GetBlockTime(T, lo) IN
         IF ts # NullTime /\ ts <= targetTs THEN 1
         ELSE 1 + ProbeBackCalls(T, targetTs, Max(1, lo - step * 2), step * 2)
    ELSE 0

\* the getBlockTime calls of the binary search
RECURSIVE BinarySearchCalls(_, _, _, _)
BinarySearchCalls(T, targetTs, lo, hi) ==
    IF lo <= hi
    THEN LET mid == (lo + hi) \div 2
             ts  == GetBlockTime(T, mid) IN
         IF ts # NullTime /\ ts <= targetTs
         THEN 1 + BinarySearchCalls(T, targetTs, mid + 1, hi)
         ELSE 1 + BinarySearchCalls(T, targetTs, lo, mid - 1)
    ELSE 0

\* the getBlockTime calls one findStartSlotAtOrBefore call makes; widens tells
\* the poll-usdt.ts copy from the flagService.ts copy
GetBlockTimeCalls(T, targetTs, endSlot, widens) ==
    IF endSlot <= 1 THEN 0
    ELSE LET hi0 == endSlot
             lo0 == Max(1, hi0 - ProbeStep)
             t   == GetBlockTime(T, hi0)
             old == t # NullTime /\ t <= targetTs
             br  == IF old THEN (IF widens THEN <<Max(1, hi0 - WideBack), hi0>> ELSE <<lo0, hi0>>)
                    ELSE ProbeBack(T, targetTs, lo0, hi0, ProbeStep)
         IN 1 + (IF old THEN 0 ELSE ProbeBackCalls(T, targetTs, lo0, ProbeStep))
              + BinarySearchCalls(T, targetTs, br[1], br[2])

\* poll-usdt.ts version: widens to hi - 10000 when the head is already old enough
FindStartSlotAtOrBefore(T, targetTs, endSlot) ==
    IF endSlot <= 1 THEN 1
    ELSE LET hi0 == endSlot
             lo0 == Max(1, hi0 - ProbeStep)
             t   == GetBlockTime(T, hi0)
             br  == IF t # NullTime /\ t <= targetTs
                    THEN <<Max(1, hi0 - WideBack), hi0>>
                    ELSE ProbeBack(T, targetTs, lo0, hi0, ProbeStep)
         IN Max(1, BinarySearch(T, targetTs, br[1], br[2], br[1]))

\* flagService.ts version: no widening branch
FindStartSlotAtOrBeforeLive(T, targetTs, endSlot) ==
    IF endSlot <= 1 THEN 1
    ELSE LET hi0 == endSlot
             lo0 == Max(1, hi0 - ProbeStep)
             t   == GetBlockTime(T, hi0)
             br  == IF ~(t # NullTime /\ t <= targetTs)
                    THEN ProbeBack(T, targetTs, lo0, hi0, ProbeStep)
                    ELSE <<lo0, hi0>>
         IN Max(1, BinarySearch(T, targetTs, br[1], br[2], br[1]))

----------------------------------------------------------------------------
(* The chain the poller scans (environment).  Slots are 1..MaxSlot; the    *)
(* wall clock is the block time of the newest slot.                        *)

MaxSlot == 3

UsdtMint == "Es9v"
OtherMint == "EPjF"
NoAmount == 0 - 1          \* info.amount / tokenAmount absent
NoDecimals == 0 - 1        \* tokenAmount.decimals absent
NoEvent == [signature |-> 0]
NullBlock == [slot |-> 0, blockTime |-> NullTime, signatures |-> <<>>]
NullTx == [found |-> FALSE]

SkippedSlots == {4}
ChainBlockTime(s) == IF s \in SkippedSlots THEN NullTime ELSE s * 100
ChainTimes == [s \in 1..MaxSlot |-> ChainBlockTime(s)]

SigsOfSlot(s) ==
    CASE s = 1 -> <<11>>
      [] s = 2 -> <<22, 23>>
      [] s = 3 -> <<44>>
      [] OTHER -> <<>>

Ins(program, type, mint, tokAmount, tokDecimals, amount, source, destination) ==
    [parsed |-> TRUE, program |-> program, type |-> type, mint |-> mint,
     tokAmount |-> tokAmount, tokDecimals |-> tokDecimals, amount |-> amount,
     source |-> source, destination |-> destination]

Tx(instructions, inner, pre, post) ==
    [found |-> TRUE, instructions |-> instructions, innerInstructions |-> inner,
     preTokenBalances |-> pre, postTokenBalances |-> post]

\* getTransaction(sig, jsonParsed): the chain's transactions, by kind sig % 5
\*   1: transferChecked of the tracked mint, 250.0 units from A to B
\*   2: a system transfer, then an inner untyped spl-token transfer; balances
\*      show the tracked mint
\*   3: transferChecked of another mint
\*   4: transferChecked of the tracked mint without a destination account
\*   0: unknown to the node (result null)
ChainTx(sig) ==
    CASE sig % 5 = 1 -> Tx(<<Ins("spl-token", "transferChecked", UsdtMint, 250000000, 6,
                                 NoAmount, "A", "B")>>, <<>>, {UsdtMint}, {UsdtMint})
      [] sig % 5 = 2 -> Tx(<<Ins("system", "transfer", "", NoAmount, NoDecimals, 5, "C", "D")>>,
                           <<<<Ins("spl-token", "transfer", "", NoAmount, NoDecimals,
                                   100500000, "C", "D")>>>>, {}, {UsdtMint})
      [] sig % 5 = 3 -> Tx(<<Ins("spl-token", "transferChecked", OtherMint, 7000000, 6,
                                 NoAmount, "E", "F")>>, <<>>, {OtherMint}, {OtherMint})
      [] sig % 5 = 4 -> Tx(<<Ins("spl-token", "transferChecked", UsdtMint, 3000000, 6,
                                 NoAmount, "G", "")>>, <<>>, {UsdtMint}, {UsdtMint})
      [] OTHER -> NullTx

ChainBlock(s) ==
    IF s \in 1..MaxSlot /\ s \notin SkippedSlots
    THEN [slot |-> s, blockTime |-> ChainBlockTime(s), signatures |-> SigsOfSlot(s)]
    ELSE NullBlock

\* getBlocks(startSlot, endSlot): the confirmed slots of the range, ascending
RECURSIVE GetBlocks(_, _)
GetBlocks(startSlot, endSlot) ==
    IF startSlot > endSlot THEN <<>>
    ELSE IF startSlot \in 1..MaxSlot /\ startSlot \notin SkippedSlots
         THEN <<startSlot>> \o GetBlocks(startSlot + 1, endSlot)
         ELSE GetBlocks(startSlot + 1, endSlot)

----------------------------------------------------------------------------
(* Event extractor: poll-usdt.ts extractUsdtTransfersFromBlock             *)

BatchSize == 10
MaxSigsPerBlock == 100
\* flagService.ts copy of the extractor
LiveBatchSize == 5
LiveMaxSigsPerBlock == 50

RECURSIVE Flatten(_)
Flatten(ss) == IF ss = <<>> THEN <<>> ELSE Head(ss) \o Flatten(Tail(ss))

\* an instruction list that puts the inner instructions first
ParsedInstrsInnerFirst(tx) == Flatten(tx.innerInstructions) \o tx.instructions

\* msg.instructions.concat(...meta.innerInstructions.map(ii => ii.instructions))
ParsedInstrs(tx) == tx.instructions \o Flatten(tx.innerInstructions)

TouchedUSDT(tx) == UsdtMint \in tx.postTokenBalances \/ UsdtMint \in tx.preTokenBalances

RECURSIVE Pow10(_)
Pow10(d) == IF d = 0 THEN 1 ELSE 10 * Pow10(d - 1)

RECURSIVE Gcd(_, _)
Gcd(a, b) == IF b = 0 THEN a ELSE Gcd(b, a % b)

\* the number a / b (b > 0), as a fraction in lowest terms
Ratio(a, b) == LET g == Gcd(a, b) IN [num |-> a \div g, den |-> b \div g]

\* an amount that is always taken to be in millionths
AmountMicro(amtRaw, dec) == Ratio(amtRaw, Pow10(6))

\* Number(amtRaw) / 10 ** dec
Amount(amtRaw, dec) == Ratio(amtRaw, Pow10(dec))

\* the body of `for (const ins of parsedInstrs)`: the event of one instruction, or NoEvent
EventOfIns(sig, slot, blockTime, tx, ins) ==
    IF ~ins.parsed \/ ins.program # "spl-token" THEN NoEvent
    ELSE IF ins.type = "transferChecked" /\ ins.mint = UsdtMint
    THEN LET amtRaw == IF ins.tokAmount # NoAmount THEN ins.tokAmount
                       ELSE IF ins.amount # NoAmount THEN ins.amount ELSE 0
             dec == IF ins.tokDecimals # NoDecimals THEN ins.tokDecimals ELSE 6
         IN [signature |-> sig, slot |-> slot, blockTime |-> blockTime,
             source |-> ins.source, destination |-> ins.destination,
             amount |-> Amount(amtRaw, dec), amountRaw |-> amtRaw, decimals |-> dec,
             type |-> "transferChecked"]
    ELSE IF ins.type = "transfer" /\ ins.amount # NoAmount /\ TouchedUSDT(tx)
    THEN [signature |-> sig, slot |-> slot, blockTime |-> blockTime,
          source |-> ins.source, destination |-> ins.destination,
          amount |-> Amount(ins.amount, 6), amountRaw |-> ins.amount, decimals |-> 6,
          type |-> "transfer"]
    ELSE NoEvent

\* first instruction in order that yields an event (the `return` inside the loop)
RECURSIVE FirstEvent(_, _, _, _, _)
FirstEvent(sig, slot, blockTime, tx, instrs) ==
    IF instrs = <<>> THEN NoEvent
    ELSE LET ev == EventOfIns(sig, slot, blockTime, tx, Head(instrs)) IN
         IF ev # NoEvent THEN ev
         ELSE FirstEvent(sig, slot, blockTime, tx, Tail(instrs))

\* one element of txPromises: failing is the set of signatures whose
\* getTransaction call throws (caught: the signature yields null)
EventOfSig(sig, slot, blockTime, failing) ==
    IF sig \in failing THEN NoEvent
    ELSE LET tx == ChainTx(sig) IN
         IF ~tx.found THEN NoEvent
         ELSE FirstEvent(sig, slot, blockTime, tx, ParsedInstrs(tx))

\* a batch whose Promise.all rejects when one getTransaction call throws
BatchEventsAbort(batch, slot, blockTime, failing) ==
    IF \E i \in 1..Len(batch) : batch[i] \in failing THEN <<>>
    ELSE LET Ev(i) == EventOfSig(batch[i], slot, blockTime, failing)
             RECURSIVE From(_)
             From(i) == IF i > Len(batch) THEN <<>>
                        ELSE (IF Ev(i) # NoEvent THEN <<Ev(i)>> ELSE <<>>) \o From(i + 1)
         IN From(1)

\* results of one batch signatures.slice(i, i + batchSize), nulls dropped
RECURSIVE BatchEvents(_, _, _, _)
BatchEvents(batch, slot, blockTime, failing) ==
    IF batch = <<>> THEN <<>>
    ELSE LET ev == EventOfSig(Head(batch), slot, blockTime, failing) IN
         (IF ev # NoEvent THEN <<ev>> ELSE <<>>)
            \o BatchEvents(Tail(batch), slot, blockTime, failing)

\* for (let i = 0; i < Math.min(signatures.length, cap); i += batchSize), i 0-based
RECURSIVE ExtractFrom(_, _, _, _, _, _, _)
ExtractFrom(i, batchSize, cap, signatures, slot, blockTime, failing) ==
    IF i < Min(Len(signatures), cap)
    THEN BatchEvents(SubSeq(signatures, i + 1, Min(i + batchSize, Len(signatures))),
                     slot, blockTime, failing)
            \o ExtractFrom(i + batchSize, batchSize, cap, signatures, slot, blockTime, failing)
    ELSE <<>>

\* poll-usdt.ts extractUsdtTransfersFromBlock
ExtractUsdtTransfersFromBlock(block, failing) ==
    IF Len(block.signatures) = 0 THEN <<>>
    ELSE ExtractFrom(0, BatchSize, MaxSigsPerBlock, block.signatures, block.slot,
                     block.blockTime, failing)

\* flagService.ts extractUsdtTransfersFromBlock
ExtractUsdtTransfersFromBlockLive(block, failing) ==
    IF Len(block.signatures) = 0 THEN <<>>
    ELSE ExtractFrom(0, LiveBatchSize, LiveMaxSigsPerBlock, block.signatures, block.slot,
                     block.blockTime, failing)

----------------------------------------------------------------------------
(* Sink: transactionRepository.upsert, keyed by sig                        *)

\* the fields pollUsdtOnce hands to transactionService.upsertTransaction
UpsertData(e) ==
    [sig |-> e.signature, tsISO |-> e.blockTime * 1000, slot |-> e.slot,
     status |-> "confirmed", from |-> e.source, to |-> e.destination,
     amountRaw |-> e.amountRaw, decimals |-> e.decimals, amountUSDT |-> e.amount,
     risk |-> 0, riskFactors |-> <<>>, labels |-> <<>>, hints |-> <<>>]

HasRow(table, sig) == \E i \in 1..Len(table) : table[i].sig = sig

\* a sink whose upsert always takes the create branch
UpsertRowAlwaysCreate(table, data) == Append(table, data)

\* prisma.transaction.upsert({where: {sig}, create, update})
UpsertRow(table, data) ==
    IF HasRow(table, data.sig)
    THEN [i \in 1..Len(table) |-> IF table[i].sig = data.sig THEN data ELSE table[i]]
    ELSE Append(table, data)

SinkSigs == {txTable[i].sig : i \in 1..Len(txTable)}

\* amountUSDT > k and amountUSDT < k for a fraction and a whole number k
Above(amount, k) ==
    LET q == amount.num \div amount.den IN q > k \/ (q = k /\ amount.num % amount.den # 0)
Below(amount, k) == amount.num \div amount.den < k

\* tsISO.getHours(), the server's clock taken to be in UTC
GetHours(tsISO) == (tsISO \div 3600000) % 24
OffHours(tsISO) == GetHours(tsISO) < 6 \/ GetHours(tsISO) > 22

\* from.length, to.length: the model's account names stand for base58
\* addresses of full length
AddressLength(a) == IF a = "" THEN 0 ELSE 44

\* flagService.ts lines 1010-1027
CalculateRiskScore(t) ==
    LET byAmount == IF Above(t.amountUSDT, 100000) THEN 30
                    ELSE IF Above(t.amountUSDT, 10000) THEN 15
                    ELSE IF Above(t.amountUSDT, 1000) THEN 5 ELSE 0
        byHour == IF OffHours(t.tsISO) THEN 10 ELSE 0
        bySelf == IF t.from = t.to THEN 50 ELSE 0
        byLength == IF AddressLength(t.from) < 40 \/ AddressLength(t.to) < 40 THEN 20 ELSE 0
    IN Min(100, Max(0, byAmount + byHour + bySelf + byLength))

\* `if (cond) list.push(item)`
PushIf(cond, item) == IF cond THEN <<item>> ELSE <<>>

\* flagService.ts lines 1032-1046
GenerateLabels(t) ==
    LET labels == PushIf(Above(t.amountUSDT, 100000), "large-amount")
                  \o PushIf(Below(t.amountUSDT, 1), "dust")
                  \o PushIf(t.from = t.to, "self-transfer")
    IN IF Len(labels) = 0 THEN <<"normal">> ELSE labels

\* flagService.ts lines 1051-1068
GenerateHints(t) ==
    PushIf(Above(t.amountUSDT, 100000), "Large amount - requires additional scrutiny")
    \o PushIf(t.risk > 70, "High risk transaction - investigate thoroughly")
    \o PushIf(OffHours(t.tsISO), "Off-hours transaction")

\* flagService.ts lines 1073-1084
GenerateRiskFactors(t) ==
    PushIf(Above(t.amountUSDT, 100000), "large_amount")
    \o PushIf(t.risk > 70, "high_risk_score")
    \o PushIf(t.from = t.to, "self_transfer")
    \o PushIf(OffHours(t.tsISO), "off_hours")

\* flagService.ts enrichTransactionData, lines 983-1005: each field is computed
\* when it arrives as 0 or empty, on the data as the lines before left it
EnrichTransactionData(data) ==
    LET d1 == IF data.risk = 0 THEN [data EXCEPT !.risk = CalculateRiskScore(data)] ELSE data
        d2 == IF Len(d1.labels) = 0 THEN [d1 EXCEPT !.labels = GenerateLabels(d1)] ELSE d1
        d3 == IF Len(d2.hints) = 0 THEN [d2 EXCEPT !.hints = GenerateHints(d2)] ELSE d2
    IN IF Len(d3.riskFactors) = 0 THEN [d3 EXCEPT !.riskFactors = GenerateRiskFactors(d3)]
       ELSE d3

\* flagService.ts TransactionService.upsertTransaction, lines 876-892
UpsertTransaction(table, data) == UpsertRow(table, EnrichTransactionData(data))

----------------------------------------------------------------------------
(* Polling cycle: poll-usdt.ts pollUsdtOnce, one step per await            *)

MaxFaults == 1
SeenLimit == 50000
IngestionIntervalMs == 30000

IntervalMs == Max(15000, IF IngestionIntervalMs # 0 THEN IngestionIntervalMs ELSE 600000)
LookbackSec == (IntervalMs \div 1000) + 60

\* the local state of a call of pollUsdtOnce that has just been made
NewCycle ==
    [pc |-> "window", nowSec |-> 0, cur |-> 0, endSlot |-> 0, located |-> 0,
     startSlot |-> 0, slots |-> <<>>, results |-> <<>>, events |-> <<>>, k |-> 0,
     first |-> FALSE, failed |-> {}, extracted |-> {}]

\* Date.now() / 1000 when the chain's newest slot is t: the wall clock runs with
\* the chain
NowSec(t) == t * 100

\* a window that takes the later of the cursor and the located slot
WindowStartMax(cur, endSlot, located) ==
    LET start == IF cur # 0 /\ endSlot >= cur THEN Max(cur, located) ELSE located
    IN IF start > endSlot THEN endSlot ELSE start

\* a window that never consults the cursor
WindowStartNoCursor(cur, endSlot, located) ==
    IF located > endSlot THEN endSlot ELSE located

\* lines 235-244: the window's first slot
WindowStart(cur, endSlot, located) ==
    LET start == IF cur # 0 /\ endSlot >= cur THEN Min(cur, located) ELSE located
    IN IF start > endSlot THEN endSlot ELSE start

\* a scan that gives up the whole window when one getBlock call throws
ScanResultsAbort(slots, failing) ==
    [i \in 1..Len(slots) |-> IF failing # {} THEN NullBlock ELSE ChainBlock(slots[i])]

\* lines 258-276: the blocks mapPool returns; failing getBlock calls give null
ScanResults(slots, failing) ==
    [i \in 1..Len(slots) |-> IF slots[i] \in failing THEN NullBlock ELSE ChainBlock(slots[i])]

\* a guard that lets every event through
RECURSIVE DedupPushAll(_, _, _)
DedupPushAll(blockEvents, seenSet, events) ==
    IF blockEvents = <<>> THEN <<seenSet, events>>
    ELSE DedupPushAll(Tail(blockEvents), seenSet \cup {Head(blockEvents).signature},
                      Append(events, Head(blockEvents)))

\* lines 283-288: the dedup guard over one block's events; yields <<seen, events>>
RECURSIVE DedupPush(_, _, _)
DedupPush(blockEvents, seenSet, events) ==
    IF blockEvents = <<>> THEN <<seenSet, events>>
    ELSE LET ev == Head(blockEvents) IN
         IF ev.signature # 0 /\ ev.signature \notin seenSet
         THEN DedupPush(Tail(blockEvents), seenSet \cup {ev.signature}, Append(events, ev))
         ELSE DedupPush(Tail(blockEvents), seenSet, events)

\* a line 293 that does not test the destination
IncompleteButForDestination(e) ==
    \/ e.blockTime = NullTime \/ e.blockTime = 0
    \/ e.source = ""
    \/ e.amountRaw = 0

\* line 293: `if (!e.blockTime || !e.source || !e.destination || !e.amount) continue`
Incomplete(e) ==
    \/ e.blockTime = NullTime \/ e.blockTime = 0
    \/ e.source = "" \/ e.destination = ""
    \/ e.amountRaw = 0

SeqToSet(q) == {q[i] : i \in 1..Len(q)}

\* `if (!blk) continue`: index of the first block at or after k, 0 when none is left
RECURSIVE NextBlock(_, _)
NextBlock(results, k) ==
    IF k > Len(results) THEN 0
    ELSE IF results[k] # NullBlock THEN k ELSE NextBlock(results, k + 1)

\* index of the first event at or after k that line 293 does not skip, 0 when none
RECURSIVE NextEvent(_, _)
NextEvent(events, k) ==
    IF k > Len(events) THEN 0
    ELSE IF ~Incomplete(events[k]) THEN k ELSE NextEvent(events, k + 1)

InFlight == BagToSet(cyc)
Become(r, r2) == (cyc (-) SetToBag({r})) (+) SetToBag({r2})
Return(r) == cyc (-) SetToBag({r})

\* the first call after a restart has returned or rejected
Returned(r) == IF r.first THEN [hist EXCEPT !.interrupted = {}] ELSE hist

\* a rejection nobody handles: the call never settles for the scheduler and
\* nothing runs after it
RejectedUnhandled(r) == Become(r, [r EXCEPT !.pc = "dead"])

\* lines 329-332: pollUsdtOnce().catch(e => logger.error(...)), the rejection
\* is logged and the call is over
Rejected(r) == Return(r)

\* pollUsdtOnce() is called (immediate run or a timer tick); Date.now and the
\* cursor read.  setInterval fires whether or not an earlier call has returned;
\* a tick that finds a call still running (a cycle that outlasts the interval)
\* is counted against the environment's budget of disturbances
StartCycle ==
    /\ IF InFlight # {}
       THEN faults > 0 /\ faults' = faults - 1
       ELSE faults' = faults
    /\ \E t \in tip..MaxSlot :
         /\ tip' = t
         /\ cyc' = cyc (+) SetToBag({[NewCycle EXCEPT !.nowSec = NowSec(t), !.cur = cursor,
                                                      !.first = hist.restarted]})
    /\ hist' = [hist EXCEPT !.restarted = FALSE]
    /\ UNCHANGED <<aux, cursor, txTable, seen>>

\* getSlot, findStartSlotAtOrBefore, getBlocks and the mapPool of getBlock calls.
\* The node that answers getSlot is at the tip, or (a disturbance) behind it;
\* the node that answers getBlocks lists the confirmed slots of the range, or
\* (a disturbance) holds none of them and answers with the empty list;
\* failing is the set of slots whose getBlock call throws
Window(r) ==
    /\ r.pc = "window"
    /\ \E t \in tip..MaxSlot, endSlot \in 0..MaxSlot :
         /\ endSlot <= t
         /\ tip' = t
         /\ \E located \in {FindStartSlotAtOrBefore(ChainTimes, r.nowSec - LookbackSec, endSlot)} :
            \E start \in {WindowStart(r.cur, endSlot, located)} :
            \E slots \in {GetBlocks(start, endSlot), <<>>} :
            \E stale \in {(IF endSlot < t THEN 1 ELSE 0)
                           + (IF slots # GetBlocks(start, endSlot) THEN 1 ELSE 0)} :
            \E failing \in SUBSET SeqToSet(slots) :
            \E results \in {ScanResults(slots, failing)} :
                 /\ stale + Cardinality(failing) <= faults
                 /\ faults' = faults - (stale + Cardinality(failing))
                 /\ cyc' = Become(r, [r EXCEPT
                               !.pc = IF Len(slots) = 0 THEN "cursorEmpty"
                                      ELSE IF NextBlock(results, 1) = 0 THEN "cursor"
                                      ELSE "extract",
                               !.k = NextBlock(results, 1),
                               !.endSlot = endSlot, !.located = located,
                               !.startSlot = start, !.slots = slots,
                               !.failed = failing, !.results = results])
    /\ UNCHANGED <<aux, cursor, txTable, seen, hist>>

\* getSlot, a getBlockTime probe or getBlocks throws: pollUsdtOnce rejects
WindowFail(r) ==
    /\ r.pc = "window"
    /\ faults > 0
    /\ faults' = faults - 1
    /\ cyc' = Rejected(r)
    /\ hist' = [Returned(r) EXCEPT !.errored = TRUE]
    /\ UNCHANGED <<aux, tip, cursor, txTable, seen>>

\* one turn of `for (const blk of results)` on a block: extraction and the dedup
\* guard; failing is the set of signatures whose getTransaction call throws
Extract(r) ==
    /\ r.pc = "extract"
    /\ \E blk \in {r.results[r.k]}, nxt \in {NextBlock(r.results, r.k + 1)} :
       \E failing \in SUBSET SeqToSet(blk.signatures) :
            /\ Cardinality(failing) <= faults
            /\ faults' = faults - Cardinality(failing)
            /\ \E blockEvents \in {ExtractUsdtTransfersFromBlock(blk, failing)} :
               \E got \in {DedupPush(blockEvents, seen, r.events)} :
               \E nev \in {NextEvent(got[2], 1)} :
                  /\ seen' = got[1]
                  /\ cyc' = Become(r, [r EXCEPT
                                !.events = got[2],
                                !.extracted = @ \cup {blk.slot},
                                !.k = IF nxt # 0 THEN nxt ELSE nev,
                                !.pc = IF nxt # 0 THEN "extract"
                                       ELSE IF nev # 0 THEN "upsert"
                                       ELSE "cursor"])
    /\ UNCHANGED <<aux, tip, cursor, txTable, hist>>

\* leaving one turn of `for (const e of events)` at event k
AfterEvent(r) ==
    LET nxt == NextEvent(r.events, r.k + 1) IN
    [r EXCEPT !.k = nxt, !.pc = IF nxt # 0 THEN "upsert" ELSE "cursor"]

\* ghost: the signature is handed to transactionService.upsertTransaction
PassedOn(h, sig) == [h EXCEPT !.twice = @ \/ sig \in h.passed, !.passed = @ \cup {sig}]

\* transactionService.upsertTransaction resolves (lines 294-310)
Upsert(r) ==
    /\ r.pc = "upsert"
    /\ LET e == r.events[r.k] IN
         /\ txTable' = UpsertTransaction(txTable, UpsertData(e))
         /\ hist' = [PassedOn(hist, e.signature) EXCEPT
                        !.updated = @ \/ HasRow(txTable, e.signature)]
    /\ cyc' = Become(r, AfterEvent(r))
    /\ UNCHANGED <<aux, tip, cursor, seen, faults>>

\* transactionService.upsertTransaction throws; caught and logged (lines 311-313)
UpsertThrow(r) ==
    /\ r.pc = "upsert"
    /\ faults > 0
    /\ faults' = faults - 1
    /\ cyc' = Become(r, AfterEvent(r))
    /\ hist' = PassedOn(hist, r.events[r.k].signature)
    /\ UNCHANGED <<aux, tip, cursor, txTable, seen>>

\* prisma.ingestionCursor.upsert with lastSlot = endSlot + 1 (lines 250-254, 317-321)
CursorWrite(r) ==
    /\ r.pc \in {"cursor", "cursorEmpty"}
    /\ cursor' = r.endSlot + 1
    /\ IF r.pc = "cursor"
       THEN /\ cyc' = Become(r, [r EXCEPT !.pc = "trim"])
            /\ hist' = hist
       ELSE /\ cyc' = Return(r)
            /\ hist' = Returned(r)
    /\ UNCHANGED <<aux, tip, txTable, seen, faults>>

\* a cursor write that stores the row and then throws
CursorWriteFailAfterWrite(r) ==
    /\ r.pc \in {"cursor", "cursorEmpty"}
    /\ faults > 0
    /\ faults' = faults - 1
    /\ cursor' = r.endSlot + 1
    /\ cyc' = Rejected(r)
    /\ hist' = [Returned(r) EXCEPT !.errored = TRUE]
    /\ UNCHANGED <<aux, tip, txTable, seen>>

\* the cursor write throws: pollUsdtOnce rejects
CursorWriteFail(r) ==
    /\ r.pc \in {"cursor", "cursorEmpty"}
    /\ faults > 0
    /\ faults' = faults - 1
    /\ cyc' = Rejected(r)
    /\ hist' = [Returned(r) EXCEPT !.errored = TRUE]
    /\ UNCHANGED <<aux, tip, cursor, txTable, seen>>

\* line 323 and the return
TrimSeen(r) ==
    /\ r.pc = "trim"
    /\ seen' = IF Cardinality(seen) > SeenLimit THEN {} ELSE seen
    /\ cyc' = Return(r)
    /\ hist' = IF Cardinality(seen) > SeenLimit
               THEN [Returned(r) EXCEPT !.passed = {}]
               ELSE Returned(r)
    /\ UNCHANGED <<aux, tip, cursor, txTable, faults>>

\* the process dies and is started again: the in-flight cycles and the seen
\* set are lost, the cursor row and the transaction table stay
Crash ==
    /\ faults > 0
    /\ InFlight # {}
    /\ faults' = faults - 1
    /\ cyc' = EmptyBag
    /\ seen' = {}
    /\ hist' = [hist EXCEPT
                  !.restarted = TRUE, !.passed = {},
                  !.crashCursor = cursor,
                  !.interrupted = {[startSlot |-> r.startSlot, endSlot |-> r.endSlot] :
                                     r \in {d \in InFlight : d.pc \in {"upsert", "cursor"}}}]
    /\ UNCHANGED <<aux, tip, cursor, txTable>>

LocIdle == [pc |-> "off"]
ExIdle == [pc |-> "off"]
LateIdle == ri = [pc |-> "off"] /\ sf = [pc |-> "off"] /\ mp = [pc |-> "off"]
MoreIdle ==
    /\ eq = [pc |-> "off"] /\ cc = [pc |-> "off"] /\ fl = [pc |-> "off"]
    /\ lk = [pc |-> "off"] /\ rq = [pc |-> "off"]
    /\ LateIdle
CallsIdle ==
    /\ sc = [pc |-> "off"] /\ mt = [pc |-> "off"] /\ sd = [pc |-> "off"] /\ lv = [pc |-> "off"]
    /\ MoreIdle

PollerInit ==
    /\ tip = 0
    /\ cursor = 0
    /\ txTable = <<>>
    /\ seen = {}
    /\ cyc = EmptyBag
    /\ faults = MaxFaults
    /\ hist = [restarted |-> FALSE, interrupted |-> {}, crashCursor |-> 0,
               updated |-> FALSE, passed |-> {}, twice |-> FALSE,
               errored |-> FALSE]

Init ==
    /\ loc = LocIdle
    /\ ex = ExIdle
    /\ CallsIdle
    /\ PollerInit

Next ==
    \/ Crash
    \/ StartCycle
    \/ \E r \in InFlight :
         \/ Window(r)
         \/ WindowFail(r)
         \/ Extract(r)
         \/ Upsert(r)
         \/ UpsertThrow(r)
         \/ CursorWrite(r)
         \/ CursorWriteFail(r)
         \/ TrimSeen(r)

Spec == Init /\ [][Next]_vars

\* The same poller when every cycle returns before the next timer tick, with
\* the progress the runtime gives: the timer keeps firing and every awaited
\* call settles
StartCycleIdle == InFlight = {} /\ StartCycle

NextSeq ==
    \/ Crash
    \/ StartCycleIdle
    \/ \E r \in InFlight :
         \/ Window(r)
         \/ WindowFail(r)
         \/ Extract(r)
         \/ Upsert(r)
         \/ UpsertThrow(r)
         \/ CursorWrite(r)
         \/ CursorWriteFail(r)
         \/ TrimSeen(r)

SeqSpec == Init /\ [][NextSeq]_vars /\ WF_vars(NextSeq)

----------------------------------------------------------------------------
(* Properties of the polling cycle                                         *)

WindowKnown(r) == r.pc # "window"
ExtractionDone(r) == r.pc \in {"upsert", "cursor", "trim"}
CursorUsable(r) == r.cur # 0 /\ r.endSlot >= r.cur
EventSigs(r) == {r.events[i].signature : i \in 1..Len(r.events)}

\* C1: across successful cycles the stored cursor.lastSlot never decreases,
\* whatever head slot getSlot reports
C1_CursorMonotone == [][cursor' >= cursor]_vars

\* C2: at most one pollUsdtOnce cycle is in flight at any time
C2_SingleCycleInFlight == BagCardinality(cyc) <= 1

\* C3: when a cycle has written the cursor, every event it passed through the
\* dedup guard has a record in the sink
C3_CursorAfterRecords ==
    \A r \in InFlight : r.pc = "trim" => EventSigs(r) \subseteq SinkSigs

\* C5: the sink holds at most one row per signature, and upserting an event's
\* data a second time leaves the table as the first upsert left it
C5_SinkIdempotent ==
    /\ \A i, j \in 1..Len(txTable) : txTable[i].sig = txTable[j].sig => i = j
    /\ \A r \in InFlight : \A i \in 1..Len(r.events) :
         ~Incomplete(r.events[i]) =>
            LET d == UpsertData(r.events[i])
                once == UpsertRow(txTable, d)
            IN /\ UpsertRow(once, d) = once
               /\ Cardinality({n \in 1..Len(once) : once[n].sig = d.sig}) = 1

\* C5 witness: an upsert has met a signature that already had a row
C5_Witness == hist.updated /\ Len(txTable) >= 1

\* C6 as claimed: the first cycle after a restart scans a window that contains
\* every slot of the window of each cycle the crash interrupted between
\* extraction and the cursor write
C6_RescanWholeWindow ==
    \A r \in InFlight : (r.first /\ WindowKnown(r)) =>
        \A w \in hist.interrupted : r.startSlot <= w.startSlot /\ w.endSlot <= r.endSlot

\* C6 amended: the first cycle after a restart reads the cursor as it was stored
\* at the crash, and when that cursor exists and the head slot is not below it,
\* its window contains every slot of an interrupted window from the cursor up
\* to its own head slot
C6_RescanFromCursor ==
    \A r \in InFlight : r.first =>
        /\ r.cur = hist.crashCursor
        /\ (WindowKnown(r) /\ CursorUsable(r)) =>
              \A w \in hist.interrupted : \A s \in w.startSlot..w.endSlot :
                  (r.cur <= s /\ s <= r.endSlot) => (r.startSlot <= s /\ s <= r.endSlot)

\* C6 witness: after a crash between extraction and the cursor write, the first
\* cycle has its window, found a usable cursor, and the interrupted window has
\* slots at or above that cursor and a slot below the new window
C6_Witness ==
    \E r \in InFlight : \E w \in hist.interrupted :
        /\ r.first /\ WindowKnown(r) /\ CursorUsable(r)
        /\ w.endSlot >= r.cur
        /\ w.startSlot < r.startSlot

SlotOfSig(sig) == CHOOSE s \in 1..MaxSlot : sig \in SeqToSet(SigsOfSlot(s))

\* a cycle's window has enumerated the slot of sig
Enumerated(sig) ==
    \E r \in InFlight : WindowKnown(r) /\ SlotOfSig(sig) \in SeqToSet(r.slots)

\* C4: every complete transfer of the tracked mint whose slot a cycle's window
\* has enumerated is eventually in the sink, the failures being transient
C4_AtLeastOnce ==
    \A sig \in {11, 22} : [](Enumerated(sig) => <>(sig \in SinkSigs))

----------------------------------------------------------------------------
(* The slot locator on its own: one call on a block-time map               *)

MaxBase == 5
MaxLevel == 5
Strides == {1, 10, 20}

\* block times of L landmark slots: null or 100, 200, ..., non-decreasing on
\* the non-null entries
BaseMaps(L) ==
    {b \in [1..L -> {NullTime} \cup {100 * v : v \in 1..MaxLevel}] :
        \A i, j \in 1..L : (i < j /\ b[i] # NullTime /\ b[j] # NullTime) => b[i] <= b[j]}

\* the landmarks placed every K slots, all other slots skipped (null)
StretchMap(b, K) ==
    [s \in 1..(Len(b) * K) |-> IF s % K = 0 THEN b[s \div K] ELSE NullTime]

LocInit ==
    /\ \E L \in 0..MaxBase : \E b \in BaseMaps(L) : \E K \in Strides : \E j \in 0..MaxLevel :
         loc = [pc |-> "ready", T |-> StretchMap(b, K), targetTs |-> 100 * j + 50,
                endSlot |-> L * K, res |-> 0, resLive |-> 0, calls |-> 0, callsLive |-> 0]
    /\ ex = ExIdle
    /\ CallsIdle
    /\ PollerInit

\* findStartSlotAtOrBefore(targetTs, endSlot) is called, in both copies
LocRun ==
    /\ loc.pc = "ready"
    /\ loc' = [loc EXCEPT !.pc = "done",
                          !.res = FindStartSlotAtOrBefore(loc.T, loc.targetTs, loc.endSlot),
                          !.resLive = FindStartSlotAtOrBeforeLive(loc.T, loc.targetTs, loc.endSlot),
                          !.calls = GetBlockTimeCalls(loc.T, loc.targetTs, loc.endSlot, TRUE),
                          !.callsLive = GetBlockTimeCalls(loc.T, loc.targetTs, loc.endSlot, FALSE)]
    /\ UNCHANGED <<ex, studies, poller>>

LocNext == LocRun

SpecLoc == LocInit /\ [][LocNext]_vars

\* slots up to endSlot whose block time is known and at or before the target
AtOrBefore(T, targetTs, endSlot) ==
    {s \in 1..endSlot : GetBlockTime(T, s) # NullTime /\ GetBlockTime(T, s) <= targetTs}

Highest(S) == CHOOSE s \in S : \A u \in S : u <= s

\* the block times of the spec's example: {10: 100, 20: 200, 30: 300, 40: null,
\* 50: 500}, every other slot null
ExampleTimes ==
    [s \in 1..50 |-> CASE s = 10 -> 100 [] s = 20 -> 200 [] s = 30 -> 300
                       [] s = 50 -> 500 [] OTHER -> NullTime]

\* C7: on block times non-decreasing in the slot number, findStartSlotAtOrBefore
\* returns the highest slot at or below endSlot whose block time is known and
\* at or before the target; on the example it returns 20
C7_LocatorCorrect ==
    loc.pc = "done" =>
         LET S == AtOrBefore(loc.T, loc.targetTs, loc.endSlot) IN
         /\ S # {} => (loc.res = Highest(S) /\ loc.resLive = Highest(S))
         /\ (loc.T = ExampleTimes /\ loc.targetTs = 250 /\ loc.endSlot = 50) => loc.res = 20

----------------------------------------------------------------------------
(* The extractor on its own: one call on a block of signatures             *)

MaxBlockLen == 12
MaxFailing == 2

ExInit ==
    /\ \E n \in 0..MaxBlockLen : \E base \in 0..4 :
         LET sigs == [i \in 1..n |-> base + i] IN
         \E failing \in SUBSET SeqToSet(sigs) :
            /\ Cardinality(failing) <= MaxFailing
            /\ ex = [pc |-> "ready",
                     block |-> [slot |-> 100, blockTime |-> 1000, signatures |-> sigs],
                     failing |-> failing, events |-> <<>>, eventsLive |-> <<>>]
    /\ loc = LocIdle
    /\ CallsIdle
    /\ PollerInit

\* extractUsdtTransfersFromBlock(block) is called, in both copies
ExRun ==
    /\ ex.pc = "ready"
    /\ ex' = [ex EXCEPT !.pc = "done",
                        !.events = ExtractUsdtTransfersFromBlock(ex.block, ex.failing),
                        !.eventsLive = ExtractUsdtTransfersFromBlockLive(ex.block, ex.failing)]
    /\ UNCHANGED <<loc, studies, poller>>

ExNext == ExRun

SpecEx == ExInit /\ [][ExNext]_vars

\* the chain's transactions that carry a transfer of the tracked mint
Qualifies(sig) == sig % 5 \in {1, 2, 4}

SigsOf(events) == [i \in 1..Len(events) |-> events[i].signature]

\* the signatures a call has to emit: those among the first cap of the block
\* whose fetch did not fail and that carry a qualifying transfer, in order
Expected(cap) ==
    LET Keep(sig) == sig \notin ex.failing /\ Qualifies(sig) IN
    SelectSeq(SubSeq(ex.block.signatures, 1, Min(Len(ex.block.signatures), cap)), Keep)

\* C10: a failing getTransaction call costs its own signature only: every
\* other signature the extractor processes is fetched and emits its qualifying
\* transfer, wherever the failing signature stands in the list
C10_TxFaultIsolation ==
    ex.pc = "done" =>
        /\ SigsOf(ex.events) = Expected(MaxSigsPerBlock)
        /\ SigsOf(ex.eventsLive) = Expected(LiveMaxSigsPerBlock)

\* C10 witness: a qualifying signature failed between two qualifying
\* signatures of its own batch, and both of them were emitted
C10_Witness ==
    /\ ex.pc = "done"
    /\ LET sigs == ex.block.signatures
           Emitted(n) == /\ Qualifies(sigs[n])
                         /\ \E m \in 1..Len(ex.events) : ex.events[m].signature = sigs[n]
                         /\ \E m \in 1..Len(ex.eventsLive) : ex.eventsLive[m].signature = sigs[n]
       IN \E i, j, k \in 1..Len(sigs) :
            /\ i < j /\ j < k
            /\ (i - 1) \div LiveBatchSize = (k - 1) \div LiveBatchSize
            /\ sigs[j] \in ex.failing /\ Qualifies(sigs[j])
            /\ Emitted(i) /\ Emitted(k)

----------------------------------------------------------------------------
(* The getBlock calls a block scanner makes for one slot: the mapPool       *)
(* callback of pollUsdtOnce and the retry loop of fetchRecentUsdtTransfers *)

MaxCalls == 4
MaxRetries == 2

\* what a getBlock call can do, by the tests the scanner applies to the
\* message of the error rpc() throws: includes('429'), and includes('too large')
\* or includes('Unterminated')
Outcome(ok, has429, large) == [ok |-> ok, has429 |-> has429, large |-> large]
BlockReturned == Outcome(TRUE, FALSE, FALSE)
\* `getBlock RPC error 429: ...`
RateLimited == Outcome(FALSE, TRUE, FALSE)
\* `getBlock failed: Response too large or corrupted JSON - ...`
Oversized == Outcome(FALSE, FALSE, TRUE)
\* the same, the parser's message naming a position such as 14290
OversizedAt429 == Outcome(FALSE, TRUE, TRUE)
\* any other RPC error or a network failure
GenericFailure == Outcome(FALSE, FALSE, FALSE)
Outcomes == {BlockReturned, RateLimited, Oversized, OversizedAt429, GenericFailure}

\* what the calls for one slot come to: calls made, retries counted, and the
\* slot's contribution ("block", "null", or "none" when nothing is pushed)
SlotScan(calls, retries, chunk) == [calls |-> calls, retries |-> retries, chunk |-> chunk]

\* poll-usdt.ts lines 258-276: one getBlock call in a try/catch that returns null
PollGetBlock(outcomes) ==
    IF outcomes[1].ok THEN SlotScan(1, 0, "block") ELSE SlotScan(1, 0, "null")

\* flagService.ts lines 589-635: while (retries <= maxRetries && !block)
RECURSIVE LiveGetBlockFrom(_, _, _)
LiveGetBlockFrom(outcomes, calls, retries) ==
    IF retries > MaxRetries THEN SlotScan(calls, retries, "none")
    ELSE LET o == outcomes[calls + 1] IN
         IF o.ok THEN SlotScan(calls + 1, retries, "block")
         ELSE IF o.has429 THEN LiveGetBlockFrom(outcomes, calls + 1, retries + 1)
         ELSE IF o.large THEN SlotScan(calls + 1, retries, "null")
         ELSE IF retries + 1 <= MaxRetries
              THEN LiveGetBlockFrom(outcomes, calls + 1, retries + 1)
              ELSE SlotScan(calls + 1, retries + 1, "null")

LiveGetBlock(outcomes) == LiveGetBlockFrom(outcomes, 0, 0)

ScInit ==
    /\ \E outcomes \in [1..MaxCalls -> Outcomes] :
         sc = [pc |-> "ready", outcomes |-> outcomes,
               poll |-> SlotScan(0, 0, "none"), live |-> SlotScan(0, 0, "none")]
    /\ loc = LocIdle /\ ex = ExIdle /\ MoreIdle
    /\ mt = [pc |-> "off"] /\ sd = [pc |-> "off"] /\ lv = [pc |-> "off"]
    /\ PollerInit

\* both scanners come to the slot
ScRun ==
    /\ sc.pc = "ready"
    /\ sc' = [sc EXCEPT !.pc = "done", !.poll = PollGetBlock(sc.outcomes),
                        !.live = LiveGetBlock(sc.outcomes)]
    /\ UNCHANGED <<loc, ex, mt, sd, lv, more, poller>>

ScNext == ScRun

SpecScan == ScInit /\ [][ScNext]_vars

\* C11: when the first getBlock call for a slot is rate-limited and the second
\* would succeed, the scanner of pollUsdtOnce and the scanner of
\* fetchRecentUsdtTransfers both make the second call and include the block,
\* with exactly one retry
C11_RateLimitRecovery ==
    (sc.pc = "done" /\ sc.outcomes[1] = RateLimited /\ sc.outcomes[2] = BlockReturned) =>
        /\ sc.live = SlotScan(2, 1, "block")
        /\ sc.poll.chunk = "block" /\ sc.poll.calls = 2

\* the failures among the calls a scanner made for the slot
FailuresOf(scan) == {i \in 1..scan.calls : ~sc.outcomes[i].ok}

\* the retry policy, for one scanner's calls
RetryPolicy(scan) ==
    /\ scan.calls <= 1 + MaxRetries
    /\ (\A i \in 1..(1 + MaxRetries) : sc.outcomes[i] = GenericFailure) =>
          (scan.calls = 1 + MaxRetries /\ scan.chunk = "null")
    /\ \A i \in FailuresOf(scan) : sc.outcomes[i].large => i = scan.calls

\* C12: getBlock is attempted at most 3 times for a slot; a generic failure
\* is retried until the 2 retries are used up and the slot then contributes
\* null; after an oversized/unparseable response no further attempt is made
C12_RetryPolicy ==
    sc.pc = "done" => (RetryPolicy(sc.live) /\ RetryPolicy(sc.poll))

----------------------------------------------------------------------------
(* The matching rule on its own: one fetched transaction                   *)

MaxInstrs == 3

\* instructions as getTransaction(jsonParsed) returns them.  A parsed
\* spl-token `transferChecked` carries mint and tokenAmount {amount, decimals};
\* a parsed spl-token `transfer` carries amount and no tokenAmount
InsKinds ==
    { Ins("spl-token", "transferChecked", UsdtMint, 250000000, 6, NoAmount, "A", "B"),
      Ins("spl-token", "transferChecked", UsdtMint, 1500000000, 9, NoAmount, "A9", "B9"),
      Ins("spl-token", "transferChecked", UsdtMint, 7, NoDecimals, NoAmount, "A0", "B0"),
      Ins("spl-token", "transferChecked", UsdtMint, NoAmount, NoDecimals, NoAmount, "AN", "BN"),
      Ins("spl-token", "transferChecked", OtherMint, 7000000, 6, NoAmount, "E", "F"),
      Ins("spl-token", "transfer", "", NoAmount, NoDecimals, 100500000, "C", "D"),
      Ins("spl-token", "transfer", "", NoAmount, NoDecimals, NoAmount, "CN", "DN"),
      Ins("system", "transfer", "", NoAmount, NoDecimals, 5, "S", "T"),
      [Ins("spl-token", "transferChecked", UsdtMint, 1000000, 6, NoAmount, "U", "V")
          EXCEPT !.parsed = FALSE] }

InsSeqs == UNION {[1..n -> InsKinds] : n \in 0..MaxInstrs}

\* flagService.ts fetchTransactionBySignature, lines 706-750: from, to and
\* amountUSDT of the first matching instruction; amount undefined when none
FetchTransactionBySignature(sig, tx) ==
    LET ev == FirstEvent(sig, 0, 0, tx, ParsedInstrs(tx)) IN
    IF ev = NoEvent THEN [signature |-> sig, matched |-> FALSE]
    ELSE [signature |-> sig, matched |-> TRUE, from |-> ev.source, to |-> ev.destination,
          amountUSDT |-> ev.amount]

MtInit ==
    /\ \E all \in InsSeqs, pre \in SUBSET {UsdtMint}, post \in SUBSET {UsdtMint} :
       \E k \in 0..Len(all) :
         mt = [pc |-> "ready",
               tx |-> Tx(SubSeq(all, 1, k),
                         IF k = Len(all) THEN <<>> ELSE <<SubSeq(all, k + 1, Len(all))>>,
                         pre, post),
               ev |-> NoEvent, bySig |-> [signature |-> 0, matched |-> FALSE]]
    /\ loc = LocIdle /\ ex = ExIdle /\ MoreIdle
    /\ sc = [pc |-> "off"] /\ sd = [pc |-> "off"] /\ lv = [pc |-> "off"]
    /\ PollerInit

\* the transaction is matched, by the extractor and by fetchTransactionBySignature
MtRun ==
    /\ mt.pc = "ready"
    /\ mt' = [mt EXCEPT !.pc = "done",
                        !.ev = FirstEvent(7, 100, 1000, mt.tx, ParsedInstrs(mt.tx)),
                        !.bySig = FetchTransactionBySignature(7, mt.tx)]
    /\ UNCHANGED <<loc, ex, sc, sd, lv, more, poller>>

MtNext == MtRun

SpecMt == MtInit /\ [][MtNext]_vars

\* the transaction's instructions in order, top-level before inner
InOrder(tx) ==
    [i \in 1..(Len(tx.instructions) + Len(Flatten(tx.innerInstructions))) |->
        IF i <= Len(tx.instructions) THEN tx.instructions[i]
        ELSE Flatten(tx.innerInstructions)[i - Len(tx.instructions)]]

\* an instruction that qualifies under the matching rule
QualifiesIns(tx, ins) ==
    /\ ins.parsed /\ ins.program = "spl-token"
    /\ \/ ins.type = "transferChecked" /\ ins.mint = UsdtMint
       \/ /\ ins.type = "transfer" /\ ins.amount # NoAmount
          /\ (UsdtMint \in tx.preTokenBalances \/ UsdtMint \in tx.postTokenBalances)

QualifyingAt(tx) == {i \in 1..Len(InOrder(tx)) : QualifiesIns(tx, InOrder(tx)[i])}

FirstQualifying(tx) ==
    InOrder(tx)[CHOOSE i \in QualifyingAt(tx) : \A j \in QualifyingAt(tx) : i <= j]

\* C13: a transaction emits an event exactly when one of its instructions,
\* top-level or inner, is an spl-token transferChecked of the tracked mint or
\* an spl-token transfer with an amount in a transaction whose token balances
\* contain the tracked mint; the one event is built from the first such
\* instruction in order, top-level before inner
C13_MatchingRule ==
    mt.pc = "done" =>
        IF QualifyingAt(mt.tx) = {} THEN mt.ev = NoEvent
        ELSE LET ins == FirstQualifying(mt.tx) IN
             /\ mt.ev # NoEvent
             /\ mt.ev.signature = 7 /\ mt.ev.type = ins.type
             /\ mt.ev.source = ins.source /\ mt.ev.destination = ins.destination

\* C13 witness: the first qualifying instruction is an inner one that follows
\* a top-level instruction which does not qualify, and a later instruction
\* qualifies as well
C13_Witness ==
    /\ mt.pc = "done" /\ mt.ev # NoEvent
    /\ Cardinality(QualifyingAt(mt.tx)) >= 2
    /\ \A i \in QualifyingAt(mt.tx) : i > Len(mt.tx.instructions)
    /\ Len(mt.tx.instructions) >= 1
    /\ mt.ev.source # InOrder(mt.tx)[Len(InOrder(mt.tx))].source

\* the decimals of the claim: tokenAmount.decimals when present, 6 otherwise
DecimalsOf(ins) == IF ins.tokDecimals # NoDecimals THEN ins.tokDecimals ELSE 6

\* decimalAmount * 10^decimals = rawAmount for the fraction num/den: with
\* k = 10^decimals / den a whole number, num * k = rawAmount
Normalized(amount, decimals, amountRaw) ==
    /\ Pow10(decimals) % amount.den = 0
    /\ LET k == Pow10(decimals) \div amount.den IN
         amountRaw % k = 0 /\ amount.num = amountRaw \div k

----------------------------------------------------------------------------
(* The dedup guard over the cycles of one process                          *)

\* C15: between two resets of the seen set (a restart or the trim), no
\* signature is handed to the sink by pollUsdtOnce more than once, whatever
\* windows the cycles scan, and every signature a cycle holds for the sink is
\* in the set
C15_DedupGuard ==
    /\ ~hist.twice
    /\ \A r \in InFlight : EventSigs(r) \subseteq seen

\* C15 witness: with no failure so far, a cycle has extracted the block of
\* signature 11 again after 11 was handed to the sink, and holds no event for it
C15_Witness ==
    /\ faults = MaxFaults
    /\ 11 \in hist.passed
    /\ \E r \in InFlight : /\ ExtractionDone(r)
                           /\ SlotOfSig(11) \in r.extracted
                           /\ 11 \notin EventSigs(r)

----------------------------------------------------------------------------
(* The size of the seen set over a run of cycles                            *)

MaxOver == 300

\* the signatures one block adds to the set: at least one, at most the number
\* of signatures the extractor takes from a block
BlockInserts == {1, MaxSigsPerBlock}

SdInit ==
    /\ sd = [pc |-> "idle", size |-> 0]
    /\ loc = LocIdle /\ ex = ExIdle /\ MoreIdle
    /\ sc = [pc |-> "off"] /\ mt = [pc |-> "off"] /\ lv = [pc |-> "off"]
    /\ PollerInit

\* pollUsdtOnce is called
SdStart ==
    /\ sd.pc = "idle"
    /\ sd' = [sd EXCEPT !.pc = "cycle"]
    /\ UNCHANGED <<loc, ex, sc, mt, lv, more, poller>>

\* lines 283-288 for one block: n signatures that are not in the set are added
SdInsert ==
    /\ sd.pc = "cycle"
    /\ \E n \in BlockInserts :
         /\ sd.size + n <= SeenLimit + MaxOver
         /\ sd' = [sd EXCEPT !.size = @ + n]
    /\ UNCHANGED <<loc, ex, sc, mt, lv, more, poller>>

\* line 323, reached when the cursor write has resolved, and the return
SdTrim ==
    /\ sd.pc = "cycle"
    /\ sd' = [pc |-> "idle", size |-> IF sd.size > SeenLimit THEN 0 ELSE sd.size]
    /\ UNCHANGED <<loc, ex, sc, mt, lv, more, poller>>

\* the cursor write of lines 317-321 throws: pollUsdtOnce rejects before line 323
SdReject ==
    /\ sd.pc = "cycle"
    /\ sd' = [sd EXCEPT !.pc = "idle"]
    /\ UNCHANGED <<loc, ex, sc, mt, lv, more, poller>>

SdNext == SdStart \/ SdInsert \/ SdTrim \/ SdReject

SpecSeen == SdInit /\ [][SdNext]_vars

\* C16: once more signatures than the threshold are in the seen set, the next
\* insert finds the set reset to empty, so the set never holds more than the
\* threshold and the signatures of one block
C16_BoundedDedup ==
    /\ [][(sd.pc = "cycle" /\ sd'.pc = "cycle" /\ sd.size > SeenLimit)
             => sd'.size <= MaxSigsPerBlock]_vars
    /\ [](sd.pc # "off" => sd.size <= SeenLimit + MaxSigsPerBlock)

----------------------------------------------------------------------------
(* The scheduler: startUsdtPoller                                           *)

Idle == InFlight = {}
Scanning == InFlight # {}

\* C17: startUsdtPoller starts a cycle at once and at every tick after that;
\* every cycle, also one that ends with an error, returns the scheduler to
\* Idle, and after an error the next tick still starts a cycle: whatever has
\* happened, a cycle is started again and again, and ends
C17_SchedulerLive == []<>Scanning /\ []<>Idle

\* C17 witness: a cycle is running after an earlier cycle ended with an error
C17_Witness == hist.errored /\ Scanning /\ ~hist.restarted /\ hist.crashCursor = 0

----------------------------------------------------------------------------
(* The live query: flagService.ts solanaService.fetchRecentUsdtTransfers    *)
(* and the route GET /api/v1/transactions that calls it                     *)

SlotSeconds == 400
MaxSlotsToCheck == 100
MinimalRange == 10
DirectCount == 10
RecentCount == 10
DefaultLimit == 50
DefaultLookbackSec == 86400

\* req.query.limit and req.query.lookback as the route reads them
Limits == {0, 1, DefaultLimit}
Lookbacks == {SlotSeconds, DefaultLookbackSec}

\* lines 501-522: the fixed list returned when NODE_ENV is 'test'
StubEvents ==
    << [signature |-> 9001, slot |-> 12345, blockTime |-> 2000, source |-> "test-from-address",
        destination |-> "test-to-address", amount |-> [num |-> 201, den |-> 2],
        amountRaw |-> 100500000, decimals |-> 6, type |-> "transferChecked"],
       [signature |-> 9002, slot |-> 12346, blockTime |-> 1940, source |-> "test-from-address-2",
        destination |-> "test-to-address-2", amount |-> [num |-> 201, den |-> 4],
        amountRaw |-> 50250000, decimals |-> 6, type |-> "transfer"] >>

\* slots.slice(-10)
LastOf(slots, n) == SubSeq(slots, Max(1, Len(slots) - n + 1), Len(slots))

\* lines 558-560: the most recent slots probed directly
DirectSlots(endSlot) ==
    LET first == Max(1, endSlot - (DirectCount - 1)) IN
    [i \in 1..Min(DirectCount, endSlot) |-> first + (i - 1)]

\* lines 660-671: the events of one block are pushed until the limit is reached
RECURSIVE PushLimited(_, _, _)
PushLimited(events, blockEvents, limit) ==
    IF blockEvents = <<>> THEN events
    ELSE LET pushed == Append(events, Head(blockEvents)) IN
         IF Len(pushed) >= limit THEN pushed
         ELSE PushLimited(pushed, Tail(blockEvents), limit)

\* a return without the sort
SortNewestFirstNot(events) == events

\* events.sort((a, b) => b.slot - a.slot): stable, by insertion from the left
RECURSIVE SortNewestFirst(_)
SortNewestFirst(events) ==
    IF events = <<>> THEN <<>>
    ELSE LET e == events[Len(events)]
             front == SortNewestFirst(SubSeq(events, 1, Len(events) - 1))
             before == SelectSeq(front, LAMBDA x : x.slot >= e.slot)
             after == SelectSeq(front, LAMBDA x : x.slot < e.slot)
         IN before \o <<e>> \o after

\* an outer catch that lets the error through to the caller
OuterCatchRethrow(q, call) ==
    [q EXCEPT !.pc = "thrown", !.errors = @ \cup {call}]

\* lines 682-685: the outer catch logs and returns []
OuterCatch(q, call) ==
    [q EXCEPT !.pc = "returned", !.ret = <<>>, !.errors = @ \cup {call}]

\* a call that stores what it returns
LiveWritesUpsert(events) ==
    <<cursor,
      IF events = <<>> THEN txTable ELSE UpsertTransaction(txTable, UpsertData(events[1])),
      seen>>

\* what a call leaves in the cursor row, the transaction table and the
\* poller's seen set: fetchRecentUsdtTransfers and the route write none of them
LiveWrites(events) == <<cursor, txTable, seen>>

\* the store a request finds: fresh, or as a cycle over slot 1 has left it
StoreStates ==
    { <<0, <<>>, {}>>,
      <<2, UpsertTransaction(<<>>, UpsertData(ExtractUsdtTransfersFromBlock(ChainBlock(1), {})[1])),
        {11}>> }

LvInit ==
    /\ \E env \in {"test", "production"}, limit \in Limits, lookbackSec \in Lookbacks :
         lv = [pc |-> "called", env |-> env, limit |-> limit, lookbackSec |-> lookbackSec,
               endSlot |-> 0, slots |-> <<>>, chunks |-> <<>>, k |-> 0, events |-> <<>>,
               ret |-> <<>>, errors |-> {}, scanned |-> FALSE, status |-> 0,
               success |-> FALSE]
    /\ loc = LocIdle /\ ex = ExIdle /\ MoreIdle
    /\ sc = [pc |-> "off"] /\ mt = [pc |-> "off"] /\ sd = [pc |-> "off"]
    /\ \E st \in StoreStates : cursor = st[1] /\ txTable = st[2] /\ seen = st[3]
    /\ tip = MaxSlot /\ cyc = EmptyBag /\ faults = 0
    /\ hist = [restarted |-> FALSE, interrupted |-> {}, crashCursor |-> 0,
               updated |-> FALSE, passed |-> {}, twice |-> FALSE, errored |-> FALSE]

LvFrame == UNCHANGED <<loc, ex, sc, mt, sd, more, tip, cyc, faults, hist>>

\* lines 500-523: under NODE_ENV = 'test' the fixed list is returned
LvStub ==
    /\ lv.pc = "called" /\ lv.env = "test"
    /\ lv' = [lv EXCEPT !.pc = "returned", !.ret = StubEvents]
    /\ LET w == LiveWrites(StubEvents) IN cursor' = w[1] /\ txTable' = w[2] /\ seen' = w[3]
    /\ LvFrame

\* line 529: getSlot answers, or throws into the outer catch
LvGetSlot ==
    /\ lv.pc = "called" /\ lv.env = "production"
    /\ \/ \E endSlot \in 1..MaxSlot :
            lv' = [lv EXCEPT !.pc = "getBlocks", !.endSlot = endSlot, !.scanned = TRUE]
       \/ lv' = OuterCatch(lv, "getSlot")
    /\ UNCHANGED <<cursor, txTable, seen>>
    /\ LvFrame

\* lines 571-577: an empty list of slots ends the call, else the last 10 are kept
WithSlots(q, slots, failed) ==
    LET q2 == [q EXCEPT !.errors = IF failed THEN @ \cup {"getBlocks"} ELSE @] IN
    IF Len(slots) = 0 THEN [q2 EXCEPT !.pc = "returned", !.ret = <<>>]
    ELSE [q2 EXCEPT !.pc = "getBlock", !.slots = LastOf(slots, RecentCount), !.k = 1]

\* lines 534-569: getBlocks over the range; a 429 falls back to the last 10
\* slots, a BigTable / -32602 error to probing the recent slots directly, any
\* other error goes to the outer catch
LvGetBlocks ==
    /\ lv.pc = "getBlocks"
    /\ LET slotsToCheck == Min(MaxSlotsToCheck, lv.lookbackSec \div SlotSeconds)
           startSlot == Max(1, lv.endSlot - slotsToCheck)
           minimalRange == Max(1, lv.endSlot - MinimalRange)
       IN \/ lv' = WithSlots(lv, GetBlocks(startSlot, lv.endSlot), FALSE)
          \/ lv' = WithSlots(lv, <<>>, FALSE)
          \/ lv' = WithSlots(lv, GetBlocks(minimalRange, lv.endSlot), TRUE)
          \/ lv' = [lv EXCEPT !.pc = "returned", !.ret = <<>>, !.errors = @ \cup {"getBlocks"}]
          \/ lv' = WithSlots(lv, DirectSlots(lv.endSlot), TRUE)
          \/ lv' = OuterCatch(lv, "getBlocks")
    /\ UNCHANGED <<cursor, txTable, seen>>
    /\ LvFrame

\* lines 588-636 for the slot at k: the retry loop over the outcomes of its
\* getBlock calls
LvGetBlock ==
    /\ lv.pc = "getBlock"
    /\ \E outcomes \in [1..MaxCalls -> Outcomes] :
         LET got == LiveGetBlock(outcomes)
             chunk == IF got.chunk = "block" THEN <<ChainBlock(lv.slots[lv.k])>>
                      ELSE IF got.chunk = "null" THEN <<NullBlock>> ELSE <<>>
         IN lv' = [lv EXCEPT
                     !.chunks = @ \o chunk,
                     !.errors = IF outcomes[1].ok THEN @ ELSE @ \cup {"getBlock"},
                     !.k = IF lv.k < Len(lv.slots) THEN lv.k + 1 ELSE 1,
                     !.pc = IF lv.k < Len(lv.slots) THEN "getBlock" ELSE "extract"]
    /\ UNCHANGED <<cursor, txTable, seen>>
    /\ LvFrame

\* lines 649-672: one turn of `for (const blk of chunks)`; failing is the set
\* of signatures whose getTransaction call throws
LvExtract ==
    /\ lv.pc = "extract"
    /\ IF NextBlock(lv.chunks, lv.k) = 0
       THEN lv' = [lv EXCEPT !.pc = "sort"]
       ELSE LET blk == lv.chunks[NextBlock(lv.chunks, lv.k)] IN
            \E failing \in SUBSET SeqToSet(blk.signatures) :
               LET events == PushLimited(lv.events,
                                         ExtractUsdtTransfersFromBlockLive(blk, failing),
                                         lv.limit)
               IN lv' = [lv EXCEPT
                           !.events = events,
                           !.errors = IF failing = {} THEN @ ELSE @ \cup {"getTransaction"},
                           !.k = NextBlock(lv.chunks, lv.k) + 1,
                           !.pc = IF Len(events) >= lv.limit THEN "sort" ELSE "extract"]
    /\ UNCHANGED <<cursor, txTable, seen>>
    /\ LvFrame

\* line 681: the sorted list is returned
LvReturn ==
    /\ lv.pc = "sort"
    /\ lv' = [lv EXCEPT !.pc = "returned", !.ret = SortNewestFirst(lv.events)]
    /\ LET w == LiveWrites(SortNewestFirst(lv.events))
       IN cursor' = w[1] /\ txTable' = w[2] /\ seen' = w[3]
    /\ LvFrame

\* routes/transactions.ts lines 23-54: the list is mapped and sent with
\* success: true; an error thrown to asyncHandler ends in the error response
LvRespond ==
    /\ lv.pc \in {"returned", "thrown"}
    /\ lv' = [lv EXCEPT !.pc = "responded",
                        !.status = IF lv.pc = "returned" THEN 200 ELSE 500,
                        !.success = (lv.pc = "returned")]
    /\ UNCHANGED <<cursor, txTable, seen>>
    /\ LvFrame

LvNext ==
    \/ LvStub
    \/ LvGetSlot
    \/ LvGetBlocks
    \/ LvGetBlock
    \/ LvExtract
    \/ LvReturn
    \/ LvRespond

SpecLive == LvInit /\ [][LvNext]_vars

NewestFirst(events) == \A i \in 1..(Len(events) - 1) : events[i].slot >= events[i + 1].slot

\* C18: fetchRecentUsdtTransfers never lets an error through to its caller:
\* whichever of getSlot, getBlocks, getBlock and getTransaction fail, it
\* returns a list and GET /api/v1/transactions answers 200 with success true
C18_LiveAvailability ==
    /\ lv.pc # "thrown"
    /\ lv.pc = "responded" => (lv.status = 200 /\ lv.success)

\* C18 witness: answered 200 after getSlot failed
C18_Witness == lv.pc = "responded" /\ lv.status = 200 /\ "getSlot" \in lv.errors

C20_LiveNoPersistence == [][UNCHANGED <<cursor, txTable, seen>>]_vars

\* C20 witness: a request is answered with a transfer the table does not hold,
\* the table, the cursor and the seen set holding the traces of an earlier cycle
C20_Witness ==
    /\ lv.pc = "responded" /\ lv.scanned /\ cursor # 0 /\ txTable # <<>> /\ seen # {}
    /\ \E i \in 1..Len(lv.ret) : lv.ret[i].signature \notin SinkSigs

----------------------------------------------------------------------------
\* No candidate slots (poll-usdt.ts lines 248-256)

\* C21: a cycle whose getBlocks call yields no candidate slot returns without
\* a change of the stored cursor
C21_NoCandidateKeepsCursor ==
    [][(\E r \in InFlight : r.pc = "cursorEmpty" /\ cyc' = Return(r))
          => cursor' = cursor]_vars

----------------------------------------------------------------------------
(* The dedup guard beside a run without it (poll-usdt.ts lines 225-324)    *)

MaxCycles == 3
MaxEqFaults == 2

\* lines 278-289: `for (const blk of results)` with the guard in place, or with
\* every extracted event pushed; yields <<seen, events>>
RECURSIVE CollectEvents(_, _, _, _, _, _)
CollectEvents(guard, results, k, failing, seenSet, events) ==
    IF k > Len(results) THEN <<seenSet, events>>
    ELSE IF results[k] = NullBlock
    THEN CollectEvents(guard, results, k + 1, failing, seenSet, events)
    ELSE LET blockEvents == ExtractUsdtTransfersFromBlock(results[k], failing)
             got == IF guard THEN DedupPush(blockEvents, seenSet, events)
                    ELSE DedupPushAll(blockEvents, seenSet, events)
         IN CollectEvents(guard, results, k + 1, failing, got[1], got[2])

\* lines 291-314: `for (const e of events)`; throwing is the set of signatures
\* whose upsertTransaction call throws in this cycle (caught and logged)
RECURSIVE UpsertAll(_, _, _)
UpsertAll(table, events, throwing) ==
    IF events = <<>> THEN table
    ELSE LET e == Head(events) IN
         IF Incomplete(e) \/ e.signature \in throwing
         THEN UpsertAll(table, Tail(events), throwing)
         ELSE UpsertAll(UpsertTransaction(table, UpsertData(e)), Tail(events), throwing)

SigsIn(table) == {table[i].sig : i \in 1..Len(table)}
SigsOfBlocks(results) ==
    UNION {SeqToSet(results[i].signatures) : i \in {j \in 1..Len(results) : results[j] # NullBlock}}

EqInit ==
    /\ eq = [pc |-> "idle", n |-> 0, tip |-> 0, cursor |-> 0, seen |-> {},
             table |-> <<>>, tableAll |-> <<>>, faults |-> MaxEqFaults]
    /\ loc = LocIdle /\ ex = ExIdle
    /\ sc = [pc |-> "off"] /\ mt = [pc |-> "off"] /\ sd = [pc |-> "off"] /\ lv = [pc |-> "off"]
    /\ cc = [pc |-> "off"] /\ fl = [pc |-> "off"] /\ lk = [pc |-> "off"] /\ rq = [pc |-> "off"]
    /\ LateIdle
    /\ PollerInit

\* one pollUsdtOnce call from its first line to its return, run on the store
\* of the poller with the guard and on the store of the poller without it,
\* under the same head slot and the same failing calls
EqCycle ==
    /\ eq.pc = "idle" /\ eq.n < MaxCycles
    /\ \E endSlot \in eq.tip..MaxSlot :
       \E located \in {FindStartSlotAtOrBefore(ChainTimes, NowSec(endSlot) - LookbackSec, endSlot)} :
       \E start \in {WindowStart(eq.cursor, endSlot, located)} :
       \E slots \in {GetBlocks(start, endSlot)} :
       \E failingSlots \in SUBSET SeqToSet(slots) :
       \E results \in {ScanResults(slots, failingSlots)} :
       \E failing \in SUBSET SigsOfBlocks(results) :
       \E throwing \in SUBSET (SigsOfBlocks(results) \ failing) :
       \E spent \in {Cardinality(failingSlots) + Cardinality(failing) + Cardinality(throwing)} :
       \E with \in {CollectEvents(TRUE, results, 1, failing, eq.seen, <<>>)} :
       \E without \in {CollectEvents(FALSE, results, 1, failing, {}, <<>>)} :
          /\ spent <= eq.faults
          /\ eq' = [eq EXCEPT
                      !.n = @ + 1, !.tip = endSlot, !.faults = @ - spent,
                      !.cursor = endSlot + 1,
                      !.seen = IF Len(slots) # 0 /\ Cardinality(with[1]) > SeenLimit
                               THEN {} ELSE with[1],
                      !.table = UpsertAll(@, with[2], throwing),
                      !.tableAll = UpsertAll(@, without[2], throwing)]
    /\ UNCHANGED <<loc, ex, sc, mt, sd, lv, cc, fl, lk, rq, late, poller>>

\* a pollUsdtOnce call that rejects: getSlot, a getBlockTime probe, getBlocks or
\* the cursor write throws.  Before the cursor write both runs have done what a
\* whole cycle does up to that line
EqReject ==
    /\ eq.pc = "idle" /\ eq.n < MaxCycles /\ eq.faults > 0
    /\ eq' = [eq EXCEPT !.n = @ + 1, !.faults = @ - 1]
    /\ UNCHANGED <<loc, ex, sc, mt, sd, lv, cc, fl, lk, rq, late, poller>>

EqNext == EqCycle \/ EqReject

SpecEq == EqInit /\ [][EqNext]_vars

\* C22: after every sequence of cycles and of failing calls, the sink of the
\* run with the dedup guard holds the same signatures as the sink of the run
\* in which every extracted event goes to the upsert
C22_GuardIsOptimisation == eq.pc # "off" => SigsIn(eq.table) = SigsIn(eq.tableAll)

----------------------------------------------------------------------------
(* RPC calls in flight within one cycle (poll-usdt.ts mapPool, lines       *)
(* 90-111, and the batches of extractUsdtTransfersFromBlock, 133-220)      *)

MaxConcurrency == 3
MaxPoolItems == 5

\* kick(): `while (active < limit && idx < arr.length)` starts that many calls
Kick(c, limit) ==
    LET started == Min(limit - c.active, c.n - c.idx) IN
    [c EXCEPT !.idx = @ + started, !.active = @ + started]

\* mapPool(slots, MAX_CONCURRENCY, getBlock) is called on n slots (pollUsdtOnce
\* returns before it when the list is empty), then a block of len signatures
\* goes to the extractor
CcInit ==
    /\ \E n \in 1..MaxPoolItems, len \in 0..MaxBlockLen :
         cc = [pc |-> "mapPool", n |-> n, len |-> len, idx |-> 0, active |-> 0,
               i |-> 0, inflight |-> 0]
    /\ loc = LocIdle /\ ex = ExIdle
    /\ sc = [pc |-> "off"] /\ mt = [pc |-> "off"] /\ sd = [pc |-> "off"] /\ lv = [pc |-> "off"]
    /\ eq = [pc |-> "off"] /\ fl = [pc |-> "off"] /\ lk = [pc |-> "off"] /\ rq = [pc |-> "off"]
    /\ LateIdle
    /\ PollerInit

CcFrame == UNCHANGED <<loc, ex, sc, mt, sd, lv, eq, fl, lk, rq, late, poller>>

\* line 109: the first kick()
CcKick ==
    /\ cc.pc = "mapPool"
    /\ cc' = [Kick(cc, MaxConcurrency) EXCEPT !.pc = "pool"]
    /\ CcFrame

\* lines 100-105: one getBlock call settles (the callback catches its error);
\* the pool resolves when nothing is left, else kick() runs again
CcSettle ==
    /\ cc.pc = "pool" /\ cc.active > 0
    /\ LET c == [cc EXCEPT !.active = @ - 1] IN
         cc' = IF c.idx >= c.n /\ c.active = 0 THEN [c EXCEPT !.pc = "extract"]
               ELSE Kick(c, MaxConcurrency)
    /\ CcFrame

\* lines 134-138: `batch.map(async sig => rpc('getTransaction', ...))` starts one
\* call per signature of the batch
CcBatch ==
    /\ cc.pc = "extract"
    /\ IF cc.len # 0 /\ cc.i < Min(cc.len, MaxSigsPerBlock)
       THEN cc' = [cc EXCEPT !.pc = "batch", !.inflight = Min(cc.i + BatchSize, cc.len) - cc.i]
       ELSE cc' = [cc EXCEPT !.pc = "done"]
    /\ CcFrame

\* one getTransaction call of the batch settles; Promise.all resolves when all have
CcTxSettle ==
    /\ cc.pc = "batch" /\ cc.inflight > 0
    /\ cc' = IF cc.inflight = 1
             THEN [cc EXCEPT !.inflight = 0, !.i = @ + BatchSize, !.pc = "extract"]
             ELSE [cc EXCEPT !.inflight = @ - 1]
    /\ CcFrame

CcNext == CcKick \/ CcSettle \/ CcBatch \/ CcTxSettle

SpecConc == CcInit /\ [][CcNext]_vars

\* C23: at every moment within one cycle at most 3 RPC calls are in flight,
\* getBlock calls of mapPool and getTransaction calls of the extractor alike
C23_BoundedConcurrency ==
    cc.pc # "off" => cc.active <= MaxConcurrency /\ cc.inflight <= MaxConcurrency

----------------------------------------------------------------------------
\* Defaults on first insert (poll-usdt.ts 291-314, flagService.ts 876-892)

\* C24: every record an ingestion cycle has inserted into the sink has
\* risk 0 and empty labels and hints
C24_DefaultsOnInsert ==
    \A i \in 1..Len(txTable) :
        txTable[i].risk = 0 /\ txTable[i].labels = <<>> /\ txTable[i].hints = <<>>

----------------------------------------------------------------------------
(* POST /flags: routes/flags.ts lines 27-92 and FlagService.submitFlag,    *)
(* flagService.ts lines 16-71                                              *)

MaxPosts == 3

\* signatures a reporter may name: the chain's, and one the node does not know
FlagSigs == {11, 22, 23, 44, 55}
Handles == {"", "alice", "bob"}

\* `tx && tx.from && tx.to && tx.amountUSDT` (routes/flags.ts line 49,
\* routes/transactions.ts line 152): by is the answer of
\* fetchTransactionBySignature, null when it is not matched at all
Truthy(by) == by.matched /\ by.from # "" /\ by.to # "" /\ by.amountUSDT.num # 0

\* solanaService.fetchTransactionBySignature(sig) against the chain: null when
\* the RPC call throws or the node does not know the signature
FetchBySig(sig, tx, rpcFails) ==
    IF rpcFails \/ ~tx.found THEN [signature |-> sig, matched |-> FALSE]
    ELSE FetchTransactionBySignature(sig, tx)

\* the record the handlers build from the RPC answer (routes/flags.ts 53-69)
MinimalData(by, slot, blockTime) ==
    [sig |-> by.signature, tsISO |-> blockTime * 1000, slot |-> slot,
     status |-> "confirmed", from |-> by.from, to |-> by.to, amountUSDT |-> by.amountUSDT,
     risk |-> 0, riskFactors |-> <<>>, labels |-> <<>>, hints |-> <<>>]

HasFlagged(flags, txSig, handle) ==
    \E i \in 1..Len(flags) : flags[i].txSig = txSig /\ flags[i].reporterHandle = handle

\* a submitFlag that does not look the transaction up
SubmitFlagUnchecked(table, flags, txSig, handle, createThrows) ==
    IF handle # "" /\ HasFlagged(flags, txSig, handle) THEN [status |-> 409, flags |-> flags]
    ELSE IF createThrows THEN [status |-> 500, flags |-> flags]
    ELSE [status |-> 201, flags |-> Append(flags, [txSig |-> txSig, reporterHandle |-> handle])]

\* FlagService.submitFlag: NotFoundError (404), ConflictError (409), an error of
\* flagRepository.create (500), or the flag is created (201)
SubmitFlag(table, flags, txSig, handle, createThrows) ==
    IF ~HasRow(table, txSig) THEN [status |-> 404, flags |-> flags]
    ELSE IF handle # "" /\ HasFlagged(flags, txSig, handle) THEN [status |-> 409, flags |-> flags]
    ELSE IF createThrows THEN [status |-> 500, flags |-> flags]
    ELSE [status |-> 201, flags |-> Append(flags, [txSig |-> txSig, reporterHandle |-> handle])]

FlInit ==
    /\ fl = [pc |-> "idle", flags |-> <<>>, n |-> 0, txSig |-> 0, valid |-> FALSE,
             hadRow |-> FALSE, created |-> FALSE, status |-> 0, refused |-> FALSE]
    /\ loc = LocIdle /\ ex = ExIdle
    /\ sc = [pc |-> "off"] /\ mt = [pc |-> "off"] /\ sd = [pc |-> "off"] /\ lv = [pc |-> "off"]
    /\ eq = [pc |-> "off"] /\ cc = [pc |-> "off"] /\ lk = [pc |-> "off"] /\ rq = [pc |-> "off"]
    /\ LateIdle
    /\ PollerInit

\* a body that validateFlagInput rejects: the handler is not reached
FlPostInvalid ==
    /\ fl.pc # "off" /\ fl.n < MaxPosts
    /\ \E txSig \in FlagSigs :
         fl' = [fl EXCEPT !.pc = "responded", !.n = @ + 1, !.txSig = txSig, !.valid = FALSE,
                          !.hadRow = HasRow(txTable, txSig), !.created = FALSE, !.status = 400]
    /\ UNCHANGED <<loc, ex, sc, mt, sd, lv, eq, cc, lk, rq, late, tip, cursor, seen, cyc, faults, hist>>
    /\ UNCHANGED txTable

\* the handler of POST /flags on a valid body: the best-effort upsert of the
\* transaction (errors ignored), then submitFlag and the response
FlPost ==
    /\ fl.pc # "off" /\ fl.n < MaxPosts
    /\ \E txSig \in FlagSigs, handle \in Handles,
          rpcFails \in BOOLEAN, upsertThrows \in BOOLEAN, createThrows \in BOOLEAN :
       \E by \in {FetchBySig(txSig, ChainTx(txSig), rpcFails)} :
       \E table \in {IF Truthy(by) /\ ~upsertThrows
                     THEN UpsertTransaction(txTable,
                             MinimalData(by, SlotOfSig(txSig), ChainBlockTime(SlotOfSig(txSig))))
                     ELSE txTable} :
       \E res \in {SubmitFlag(table, fl.flags, txSig, handle, createThrows)} :
          /\ txTable' = table
          /\ fl' = [fl EXCEPT !.pc = "responded", !.n = @ + 1, !.txSig = txSig,
                              !.valid = TRUE, !.hadRow = HasRow(table, txSig),
                              !.created = (res.flags # fl.flags), !.flags = res.flags,
                              !.status = res.status,
                              !.refused = @ \/ res.status = 404]
    /\ UNCHANGED <<loc, ex, sc, mt, sd, lv, eq, cc, lk, rq, late, tip, cursor, seen, cyc, faults, hist>>

FlNext == FlPostInvalid \/ FlPost

SpecFlags == FlInit /\ [][FlNext]_vars

\* C25: after any sequence of POST /flags requests every stored flag's txSig
\* has a row in the transaction table; a request for a signature without a row
\* is answered 404 and stores no flag; a request answered 201 leaves the row and
\* the flag stored
C25_FlagIntegrity ==
    fl.pc # "off" =>
      /\ \A i \in 1..Len(fl.flags) : HasRow(txTable, fl.flags[i].txSig)
      /\ (fl.pc = "responded" /\ fl.valid /\ ~fl.hadRow) => (fl.status = 404 /\ ~fl.created)
      /\ fl.status = 201 =>
            /\ HasRow(txTable, fl.txSig)
            /\ fl.created /\ fl.flags[Len(fl.flags)].txSig = fl.txSig

\* C25 witness: a request was refused with NotFound, and a later one for a
\* signature the table did not hold at first is answered 201, two flags stored
C25_Witness ==
    /\ fl.pc = "responded" /\ fl.status = 201 /\ fl.refused
    /\ Len(fl.flags) >= 2 /\ Len(txTable) >= 1

----------------------------------------------------------------------------
(* GET /transactions/:sig: routes/transactions.ts lines 135-190            *)

\* base58 text of a 64-byte signature: 88 characters, or 87 when it is short
SigLengths == {87, 88}

\* validation.ts lines 134-143 outside the test environment: /^[base58]{88}$/
ValidateSolanaSignature(len) == len = 88

\* what the node answers to getTransaction(sig): the chain's transactions and
\* one-instruction transactions of every kind of instruction
LookupTxs ==
    {ChainTx(s) : s \in FlagSigs}
       \cup {Tx(<<k>>, <<>>, {UsdtMint}, {UsdtMint}) : k \in InsKinds}

\* the live feed lists the signature: the extractor of flagService.ts yields an
\* event for its transaction (routes/transactions.ts 33-43 maps every event)
Listed(tx) == tx.found /\ FirstEvent(7, 100, 1000, tx, ParsedInstrs(tx)) # NoEvent

LkInit ==
    /\ \E tx \in LookupTxs, len \in SigLengths,
          stored \in BOOLEAN, rpcFails \in BOOLEAN, dbThrows \in BOOLEAN :
         lk = [pc |-> "requested", sig |-> 7, len |-> len, tx |-> tx, stored |-> stored,
               rpcFails |-> rpcFails, dbThrows |-> dbThrows,
               status |-> 0, success |-> FALSE, from |-> "none", dataSig |-> 0]
    /\ loc = LocIdle /\ ex = ExIdle
    /\ sc = [pc |-> "off"] /\ mt = [pc |-> "off"] /\ sd = [pc |-> "off"] /\ lv = [pc |-> "off"]
    /\ eq = [pc |-> "off"] /\ cc = [pc |-> "off"] /\ fl = [pc |-> "off"] /\ rq = [pc |-> "off"]
    /\ LateIdle
    /\ PollerInit

\* an answer that is not about the transaction: the error handler's response
LookupFails(q, status) == [q EXCEPT !.pc = "responded", !.status = status]

\* an answer with `success: true, data: transaction`
LookupResolves(q, from, dataSig) ==
    [q EXCEPT !.pc = "responded", !.status = 200, !.success = TRUE,
              !.from = from, !.dataSig = dataSig]

\* the handler with its middleware: validateSolanaSignatureParam, the DB
\* lookup, and on NotFoundError ('Transaction not found') the RPC lookup
LookupBySig(q) ==
    IF ~ValidateSolanaSignature(q.len) THEN LookupFails(q, 400)
    ELSE IF q.dbThrows THEN LookupFails(q, 500)
    ELSE IF q.stored THEN LookupResolves(q, "db", q.sig)
    ELSE LET rpcTx == FetchBySig(q.sig, q.tx, q.rpcFails) IN
         IF Truthy(rpcTx) THEN LookupResolves(q, "rpc", rpcTx.signature)
         ELSE LookupFails(q, 404)

LkGet ==
    /\ lk.pc = "requested"
    /\ lk' = LookupBySig(lk)
    /\ UNCHANGED <<loc, ex, sc, mt, sd, lv, eq, cc, fl, rq, late, poller>>

LkNext == LkGet

SpecLookup == LkInit /\ [][LkNext]_vars

\* the RPC lookup yields from, to and an amount
YieldsTransfer(q) ==
    LET by == FetchBySig(q.sig, q.tx, q.rpcFails) IN
    by.matched /\ by.from # "" /\ by.to # ""

\* C26: the stored record is returned when the signature is in the DB; when it
\* is not, the RPC-derived transaction is returned if the RPC lookup yields
\* from, to and an amount, and the not-found error otherwise; every signature
\* the live feed lists resolves with success and the same sig
C26_Lookup ==
    lk.pc = "responded" =>
      /\ (ValidateSolanaSignature(lk.len) /\ ~lk.dbThrows /\ lk.stored)
            => (lk.status = 200 /\ lk.from = "db")
      /\ (ValidateSolanaSignature(lk.len) /\ ~lk.dbThrows /\ ~lk.stored)
            => IF YieldsTransfer(lk) THEN lk.status = 200 /\ lk.from = "rpc"
               ELSE lk.status = 404
      /\ (Listed(lk.tx) /\ ~lk.rpcFails /\ ~lk.dbThrows)
            => (lk.success /\ lk.dataSig = lk.sig)

----------------------------------------------------------------------------
\* Slot locator: termination and range (poll-usdt.ts 51-88, flagService.ts 373-402)

\* C27: for every endSlot >= 0, every target and every block-time map, a map
\* that is null at every slot included, both copies of findStartSlotAtOrBefore
\* return after finitely many getBlockTime calls (no more than endSlot + 1) a
\* slot r with 1 <= r <= max(1, endSlot)
C27_LocatorTerminatesInRange ==
    loc.pc = "done" =>
      /\ 1 <= loc.res /\ loc.res <= Max(1, loc.endSlot)
      /\ 1 <= loc.resLive /\ loc.resLive <= Max(1, loc.endSlot)
      /\ loc.calls <= loc.endSlot + 1 /\ loc.callsLive <= loc.endSlot + 1

\* C27 witness: on a map of more than 64 slots that is null at every slot the
\* call has gone through the probe loop and the binary search and returned
C27_Witness ==
    /\ loc.pc = "done" /\ loc.endSlot > ProbeStep
    /\ \A s \in DOMAIN loc.T : loc.T[s] = NullTime
    /\ loc.calls > 2

----------------------------------------------------------------------------
(* The extractor on blocks of any length (poll-usdt.ts 124-223,            *)
(* flagService.ts 415-495)                                                 *)

MaxBeyond == 2

\* lengths of the signature list: short blocks, and blocks at and just beyond
\* the numbers the two loops compare the index with
BlockLengths ==
    (0..MaxBlockLen)
       \cup {LiveMaxSigsPerBlock + d : d \in 0..MaxBeyond}
       \cup {MaxSigsPerBlock + d : d \in 0..MaxBeyond}

CoverInit ==
    /\ \E n \in BlockLengths, base \in 0..4 :
         ex = [pc |-> "ready",
               block |-> [slot |-> 100, blockTime |-> 1000,
                          signatures |-> [i \in 1..n |-> base + i]],
               failing |-> {}, events |-> <<>>, eventsLive |-> <<>>]
    /\ loc = LocIdle
    /\ CallsIdle
    /\ PollerInit

SpecCover == CoverInit /\ [][ExNext]_vars

\* C28: whatever the length n of the block's signature list, every signature
\* is fetched, so every qualifying transfer of the block is emitted, in both
\* copies of the extractor
C28_ExtractorCoverage ==
    ex.pc = "done" =>
        /\ SigsOf(ex.events) = Expected(Len(ex.block.signatures))
        /\ SigsOf(ex.eventsLive) = Expected(Len(ex.block.signatures))

----------------------------------------------------------------------------
\* getBlocks fallback (flagService.ts 539-574, poll-usdt.ts 248-256)

\* C29: when the getBlocks range call has failed, the scan goes on with a
\* list of recent slots that ends at the head slot, whatever the failure was
C29_GetBlocksFallback ==
    "getBlocks" \in lv.errors =>
        (lv.slots # <<>> /\ lv.slots[Len(lv.slots)] = lv.endSlot)

----------------------------------------------------------------------------
(* The transport: rpc(method, params), poll-usdt.ts lines 28-49 and        *)
(* flagService.ts lines 350-371, and the tests its callers apply to the    *)
(* error it throws (flagService.ts lines 613-634)                          *)

Methods == {"getSlot", "getBlockTime", "getBlocks", "getBlock", "getTransaction"}
HttpStatuses == {200, 429, 503}

\* a response body: its kind, the code of its error object, and whether the
\* text that ends up in the error message contains the digits 429
Body(kind, code, mentions429) == [kind |-> kind, code |-> code, mentions429 |-> mentions429]

\*   result     {"result": ...}
\*   bare       a JSON object with neither result nor error
\*   error      {"error": {"code", "message"}}: 429, -32005, and -32007 with a
\*              message that names a slot such as 14290
\*   text       not JSON ("Too Many Requests", an HTML page): the parser's
\*              message is `Unexpected token ... is not valid JSON`
\*   truncated  JSON cut short: `Unterminated string in JSON at position N`
\*   empty      no body: `Unexpected end of JSON input`
\*   aborted    the body stream breaks: an error that names neither JSON nor
\*              Unterminated
Bodies ==
    { Body("result", 0, FALSE), Body("bare", 0, FALSE),
      Body("error", 429, FALSE), Body("error", 0 - 32005, FALSE),
      Body("error", 0 - 32007, TRUE),
      Body("text", 0, FALSE), Body("truncated", 0, FALSE), Body("truncated", 0, TRUE),
      Body("empty", 0, FALSE), Body("aborted", 0, FALSE) }

Unparseable(body) == body.kind \in {"text", "truncated", "empty"}

\* what fetch comes to: a response, or a rejection (no connection)
Answers ==
    {[net |-> TRUE, status |-> s, body |-> b] : s \in HttpStatuses, b \in Bodies}
       \cup {[net |-> FALSE, status |-> 0, body |-> Body("none", 0, FALSE)]}

\* rpc(method, params) on the answer of its one fetch: res.status is not read;
\* res.json() decides
Rpc(method, answer) ==
    IF ~answer.net THEN GenericFailure
    ELSE LET b == answer.body IN
         IF Unparseable(b) THEN Outcome(FALSE, b.mentions429, TRUE)
         ELSE IF b.kind = "aborted" THEN GenericFailure
         ELSE IF b.kind = "error" THEN Outcome(FALSE, b.code = 429 \/ b.mentions429, FALSE)
         ELSE BlockReturned

\* the branch of flagService.ts lines 613-634 an outcome takes
HandledAs(o, answer) ==
    IF o.ok THEN "Returned"
    ELSE IF o.has429 THEN "RateLimited"
    ELSE IF o.large THEN "OversizedResponse"
    ELSE IF answer.net /\ answer.body.kind = "error" THEN "RpcProtocolError"
    ELSE "TransportError"

RqInit ==
    /\ \E method \in Methods, answer \in Answers :
         rq = [pc |-> "called", method |-> method, answer |-> answer, requests |-> 0,
               outcome |-> GenericFailure, class |-> "none"]
    /\ loc = LocIdle /\ ex = ExIdle
    /\ sc = [pc |-> "off"] /\ mt = [pc |-> "off"] /\ sd = [pc |-> "off"] /\ lv = [pc |-> "off"]
    /\ eq = [pc |-> "off"] /\ cc = [pc |-> "off"] /\ fl = [pc |-> "off"] /\ lk = [pc |-> "off"]
    /\ LateIdle
    /\ PollerInit

\* the call: one fetch, the outcome, and the caller's branch
RqCall ==
    /\ rq.pc = "called"
    /\ \E o \in {Rpc(rq.method, rq.answer)} :
         rq' = [rq EXCEPT !.pc = "done", !.requests = @ + 1, !.outcome = o,
                          !.class = HandledAs(o, rq.answer)]
    /\ UNCHANGED <<loc, ex, sc, mt, sd, lv, eq, cc, fl, lk, late, poller>>

RqNext == RqCall

SpecRpc == RqInit /\ [][RqNext]_vars

\* C30: one rpc call issues exactly one HTTP request; a response with HTTP
\* status 429 is handled as RateLimited whatever its body; an unparseable body
\* under another status is handled as OversizedResponse; a JSON-RPC error
\* object under another status is handled as RpcProtocolError (as RateLimited
\* when its code is 429)
C30_TransportTaxonomy ==
    (rq.pc = "done" /\ rq.answer.net) =>
      /\ rq.requests = 1
      /\ rq.answer.status = 429 => rq.class = "RateLimited"
      /\ (rq.answer.status # 429 /\ Unparseable(rq.answer.body))
            => rq.class = "OversizedResponse"
      /\ (rq.answer.status # 429 /\ rq.answer.body.kind = "error")
            => rq.class = IF rq.answer.body.code = 429 THEN "RateLimited"
                          ELSE "RpcProtocolError"

----------------------------------------------------------------------------
(* Writes to a transaction row over time: the upsert of an ingestion cycle *)
(* (poll-usdt.ts 291-314 through flagService.ts 876-892) and               *)
(* TransactionRepository.update (transactionRepository.ts 143-176)         *)

MaxWrites == 4

\* the signatures whose events line 293 lets through
IngestSigs == {11, 22}

\* the fields a later step may set through TransactionRepository.update
Patches ==
    {[risk |-> 80], [labels |-> <<"mixer">>],
     [hints |-> <<"Reviewed by analyst">>],
     [risk |-> 80, labels |-> <<"mixer">>, hints |-> <<"Reviewed by analyst">>]}

NoRow == [sig |-> 0]
RowOf(table, sig) ==
    IF HasRow(table, sig)
    THEN table[CHOOSE i \in 1..Len(table) : table[i].sig = sig]
    ELSE NoRow

\* TransactionRepository.update(sig, data): the fields given are written, the
\* others stay; null (nothing written) when the row does not exist
UpdateRow(table, sig, data) ==
    [i \in 1..Len(table) |->
        IF table[i].sig = sig
        THEN [f \in DOMAIN table[i] |-> IF f \in DOMAIN data THEN data[f] ELSE table[i][f]]
        ELSE table[i]]

RiInit ==
    /\ ri = [pc |-> "idle", n |-> 0, sig |-> 0, had |-> FALSE, before |-> NoRow]
    /\ loc = LocIdle /\ ex = ExIdle
    /\ sc = [pc |-> "off"] /\ mt = [pc |-> "off"] /\ sd = [pc |-> "off"] /\ lv = [pc |-> "off"]
    /\ eq = [pc |-> "off"] /\ cc = [pc |-> "off"] /\ fl = [pc |-> "off"]
    /\ lk = [pc |-> "off"] /\ rq = [pc |-> "off"]
    /\ sf = [pc |-> "off"] /\ mp = [pc |-> "off"]
    /\ PollerInit

RiFrame ==
    UNCHANGED <<loc, ex, sc, mt, sd, lv, eq, cc, fl, lk, rq, sf, mp,
                tip, cursor, seen, cyc, faults, hist>>

\* lines 291-314 of pollUsdtOnce for one event of the chain: the cycle that
\* meets the signature first inserts, a cycle after a restart upserts again
RiIngest ==
    /\ ri.pc # "off" /\ ri.n < MaxWrites
    /\ \E sig \in IngestSigs :
       \E e \in {EventOfSig(sig, SlotOfSig(sig), ChainBlockTime(SlotOfSig(sig)), {})} :
          /\ ~Incomplete(e)
          /\ txTable' = UpsertTransaction(txTable, UpsertData(e))
          /\ ri' = [pc |-> "ingested", n |-> ri.n + 1, sig |-> sig,
                    had |-> HasRow(txTable, sig), before |-> RowOf(txTable, sig)]
    /\ RiFrame

\* a later step changes the enrichment of a stored row
RiUpdate ==
    /\ ri.pc # "off" /\ ri.n < MaxWrites
    /\ \E sig \in IngestSigs, data \in Patches :
          /\ HasRow(txTable, sig)
          /\ txTable' = UpdateRow(txTable, sig, data)
          /\ ri' = [pc |-> "updated", n |-> ri.n + 1, sig |-> sig,
                    had |-> TRUE, before |-> RowOf(txTable, sig)]
    /\ RiFrame

RiNext == RiIngest \/ RiUpdate

SpecReingest == RiInit /\ [][RiNext]_vars

\* C31: when an ingestion cycle upserts a signature that already has a row,
\* the row's risk, labels and hints are the ones stored before the upsert,
\* also when a later step had changed them after the first insert
C31_ReingestKeepsEnrichment ==
    (ri.pc = "ingested" /\ ri.had) =>
        LET row == RowOf(txTable, ri.sig) IN
        /\ row.risk = ri.before.risk
        /\ row.labels = ri.before.labels
        /\ row.hints = ri.before.hints

----------------------------------------------------------------------------
\* The locator never overshoots (poll-usdt.ts 51-88, flagService.ts 373-402)

\* C32: on block times non-decreasing in the slot number, when some slot at or
\* below endSlot has a known block time at or before the target, neither copy
\* of findStartSlotAtOrBefore returns a slot above the highest such slot
C32_LocatorConservative ==
    loc.pc = "done" =>
        LET S == AtOrBefore(loc.T, loc.targetTs, loc.endSlot) IN
        S # {} => (loc.res <= Highest(S) /\ loc.resLive <= Highest(S))

\* C32 witness: a map of more than 64 slots whose head is after the target,
\* with a qualifying slot that the call has not reached: it returned below it
C32_Witness ==
    /\ loc.pc = "done" /\ loc.endSlot > ProbeStep
    /\ LET S == AtOrBefore(loc.T, loc.targetTs, loc.endSlot) IN
         /\ S # {} /\ Highest(S) < loc.endSlot
         /\ loc.res < Highest(S) /\ loc.resLive < Highest(S)

----------------------------------------------------------------------------
\* Consecutive windows leave no gap (poll-usdt.ts 231-256, 316-321)

\* C33: a cycle that has read a cursor row starts its window at or below the
\* lastSlot it read, and every lastSlot ever stored is one above the last slot
\* of the window of the cycle that wrote it: no slot number lies between the
\* window that produced a cursor and the window of a cycle that read it
C33_NoGapBetweenWindows ==
    /\ [](\A r \in InFlight : (WindowKnown(r) /\ r.cur # 0) => r.startSlot <= r.cur)
    /\ [][cursor' # cursor =>
             \E r \in InFlight : WindowKnown(r) /\ r.startSlot <= r.endSlot
                                 /\ cursor' = r.endSlot + 1]_vars

\* C33 witness: a cycle read a cursor below the slot the locator found for the
\* lookback, and its window starts at the cursor
C33_Witness ==
    \E r \in InFlight :
        /\ WindowKnown(r) /\ r.cur # 0
        /\ r.located > r.cur /\ r.startSlot = r.cur /\ r.endSlot > r.cur

----------------------------------------------------------------------------
(* Rejected cycles and the cursor (poll-usdt.ts 227-324, 326-333): the     *)
(* immediate run and the call of the first timer tick, which has fired     *)
(* while the immediate run is still awaiting getSlot, up to their end      *)

OverlapInit ==
    /\ loc = LocIdle
    /\ ex = ExIdle
    /\ CallsIdle
    /\ tip = 0 /\ cursor = 0 /\ txTable = <<>> /\ seen = {}
    /\ cyc = SetToBag({NewCycle}) (+) SetToBag({NewCycle})
    /\ faults = MaxFaults
    /\ hist = [restarted |-> FALSE, interrupted |-> {}, crashCursor |-> 0,
               updated |-> FALSE, passed |-> {}, twice |-> FALSE,
               errored |-> FALSE]

OverlapNext ==
    \E r \in InFlight :
        \/ Window(r)
        \/ WindowFail(r)
        \/ Extract(r)
        \/ Upsert(r)
        \/ UpsertThrow(r)
        \/ CursorWrite(r)
        \/ CursorWriteFail(r)
        \/ TrimSeen(r)

SpecOverlap == OverlapInit /\ [][OverlapNext]_vars

\* pollUsdtOnce rejects in this step
Rejects(r) == WindowFail(r) \/ CursorWriteFail(r)

----------------------------------------------------------------------------
\* Only complete events reach the sink (poll-usdt.ts 283-321)

\* a stored row with a block time, both accounts and an amount
CompleteRow(row) ==
    /\ row.tsISO > 0
    /\ row.from # "" /\ row.to # ""
    /\ row.amountUSDT.num # 0

\* the events of a call that line 293 skips
Skipped(r) == {r.events[i] : i \in {j \in 1..Len(r.events) : Incomplete(r.events[j])}}

\* C35: every row an ingestion cycle has written has a block time, a source, a
\* destination and a non-zero amount; an event that lacks one of them is not
\* upserted by its cycle, and when that cycle writes the cursor its signature
\* is in the seen set and the cursor is above its slot
C35_CompleteRecordsOnly ==
    /\ [](\A i \in 1..Len(txTable) : CompleteRow(txTable[i]))
    /\ [][\A r \in InFlight :
            /\ (Upsert(r) \/ UpsertThrow(r)) => ~Incomplete(r.events[r.k])
            /\ CursorWrite(r) =>
                 \A e \in Skipped(r) :
                    /\ ~HasRow(txTable', e.signature)
                    /\ e.signature \in seen'
                    /\ cursor' > e.slot]_vars

\* C35 witness: a call that extracted an event without a destination has
\* written its cursor: the event has no row, is in the seen set, and the cursor
\* is past its slot
C35_Witness ==
    \E r \in InFlight :
        /\ r.pc = "trim"
        /\ \E e \in Skipped(r) :
              /\ e.destination = ""
              /\ ~HasRow(txTable, e.signature)
              /\ e.signature \in seen
              /\ cursor > e.slot

----------------------------------------------------------------------------
\* The limit of the live query (flagService.ts 646-681, routes/transactions.ts 26-31)

\* C36: for every limit >= 0, fetchRecentUsdtTransfers(limit, lookbackSec)
\* returns at most limit events
C36_LiveQueryLimit ==
    lv.pc = "returned" => Len(lv.ret) <= lv.limit

----------------------------------------------------------------------------
(* FlagService.submitFlag step by step (flagService.ts 16-71,              *)
(* flagRepository.ts 15-42, 282-300): requests are handled concurrently,   *)
(* each await is a point where another call may run                        *)

MaxCallers == 2
MaxSubmits == 3

Callers == 1..MaxCallers
SubmitSigs == {11, 22}
Reporters == {"alice", "bob"}

\* the rows a submission finds: the transfer of signature 11 has been ingested
FlaggableTable == UpsertTransaction(<<>>, UpsertData(EventOfSig(11, 1, ChainBlockTime(1), {})))

IdleCall == [pc |-> "idle", txSig |-> 0, handle |-> "", dup |-> FALSE, status |-> 0]

SfInit ==
    /\ sf = [pc |-> "on", flags |-> <<>>, n |-> 0, call |-> [c \in Callers |-> IdleCall]]
    /\ loc = LocIdle /\ ex = ExIdle
    /\ sc = [pc |-> "off"] /\ mt = [pc |-> "off"] /\ sd = [pc |-> "off"] /\ lv = [pc |-> "off"]
    /\ eq = [pc |-> "off"] /\ cc = [pc |-> "off"] /\ fl = [pc |-> "off"]
    /\ lk = [pc |-> "off"] /\ rq = [pc |-> "off"]
    /\ ri = [pc |-> "off"] /\ mp = [pc |-> "off"]
    /\ tip = 0 /\ cursor = 0 /\ txTable = FlaggableTable /\ seen = {}
    /\ cyc = EmptyBag /\ faults = 0
    /\ hist = [restarted |-> FALSE, interrupted |-> {}, crashCursor |-> 0,
               updated |-> FALSE, passed |-> {}, twice |-> FALSE, errored |-> FALSE]

SfFrame ==
    UNCHANGED <<loc, ex, sc, mt, sd, lv, eq, cc, fl, lk, rq, ri, mp, poller>>

\* submitFlag(data, metadata) is called; dup records whether the reporter's
\* flag on the transaction is stored at that moment
SfCall(c) ==
    /\ sf.call[c].pc \in {"idle", "done"} /\ sf.n < MaxSubmits
    /\ \E txSig \in SubmitSigs, handle \in Reporters :
         sf' = [sf EXCEPT !.n = @ + 1,
                          !.call[c] = [pc |-> "find", txSig |-> txSig, handle |-> handle,
                                       dup |-> HasFlagged(sf.flags, txSig, handle),
                                       status |-> 0]]
    /\ SfFrame

\* lines 29-32: transactionRepository.findBySignature, NotFoundError when null
SfFind(c) ==
    /\ sf.call[c].pc = "find"
    /\ sf' = IF HasRow(txTable, sf.call[c].txSig)
             THEN [sf EXCEPT !.call[c].pc = "check"]
             ELSE [sf EXCEPT !.call[c].pc = "done", !.call[c].status = 404]
    /\ SfFrame

\* lines 34-43: flagRepository.hasReporterFlagged counts the stored flags of
\* the pair, ConflictError when there is one
SfCheck(c) ==
    /\ sf.call[c].pc = "check"
    /\ sf' = IF HasFlagged(sf.flags, sf.call[c].txSig, sf.call[c].handle)
             THEN [sf EXCEPT !.call[c].pc = "done", !.call[c].status = 409]
             ELSE [sf EXCEPT !.call[c].pc = "create"]
    /\ SfFrame

\* lines 45-51: flagRepository.create stores the flag
SfCreate(c) ==
    /\ sf.call[c].pc = "create"
    /\ sf' = [sf EXCEPT !.flags = Append(@, [txSig |-> sf.call[c].txSig,
                                             reporterHandle |-> sf.call[c].handle]),
                        !.call[c].pc = "done", !.call[c].status = 201]
    /\ SfFrame

\* flagRepository.create throws: nothing is stored, the error is rethrown
SfCreateThrows(c) ==
    /\ sf.call[c].pc = "create"
    /\ sf' = [sf EXCEPT !.call[c].pc = "done", !.call[c].status = 500]
    /\ SfFrame

SfNext ==
    \E c \in Callers :
        \/ SfCall(c)
        \/ SfFind(c)
        \/ SfCheck(c)
        \/ SfCreate(c)
        \/ SfCreateThrows(c)

SpecSubmit == SfInit /\ [][SfNext]_vars

\* the stored flags of a pair
FlagsOf(flags, txSig, handle) ==
    {i \in 1..Len(flags) : flags[i].txSig = txSig /\ flags[i].reporterHandle = handle}

\* C37: after any interleaving of submitFlag calls at most one flag is stored
\* per (txSig, reporterHandle), and a submission made when the reporter's flag
\* on the transaction is already stored ends in ConflictError
C37_OneFlagPerReporter ==
    sf.pc # "off" =>
      /\ \A txSig \in SubmitSigs, handle \in Reporters :
            Cardinality(FlagsOf(sf.flags, txSig, handle)) <= 1
      /\ \A c \in Callers :
            (sf.call[c].pc = "done" /\ sf.call[c].dup) => sf.call[c].status = 409

----------------------------------------------------------------------------
(* mapPool(arr, limit, fn) on its own (poll-usdt.ts 90-111): the calls     *)
(* running, the order in which they resolve, and out                       *)

PoolLimits == 1..MaxConcurrency

\* arr[i] and the value fn(arr[i], i) resolves with; i is 1-based here
ArrItem(i) == 10 + i
Fn(t, i) == <<"block", t, i>>

\* a slot of `new Array(arr.length)` that nothing has been assigned to
EmptySlot == <<>>

MpInit ==
    /\ \E n \in 0..MaxPoolItems, limit \in PoolLimits :
         mp = [pc |-> "called", n |-> n, limit |-> limit, idx |-> 0, active |-> 0,
               running |-> {}, out |-> [i \in 1..n |-> EmptySlot]]
    /\ loc = LocIdle /\ ex = ExIdle
    /\ sc = [pc |-> "off"] /\ mt = [pc |-> "off"] /\ sd = [pc |-> "off"] /\ lv = [pc |-> "off"]
    /\ eq = [pc |-> "off"] /\ cc = [pc |-> "off"] /\ fl = [pc |-> "off"]
    /\ lk = [pc |-> "off"] /\ rq = [pc |-> "off"]
    /\ ri = [pc |-> "off"] /\ sf = [pc |-> "off"]
    /\ PollerInit

MpFrame ==
    UNCHANGED <<loc, ex, sc, mt, sd, lv, eq, cc, fl, lk, rq, ri, sf, poller>>

\* kick() on the pool p: the calls fn(arr[i], i) it starts are those of the
\* indices idx passes over
Kicked(p) ==
    LET k == Kick(p, p.limit) IN
    [k EXCEPT !.running = @ \cup ((p.idx + 1)..k.idx)]

\* lines 94 and 109: the executor runs, the first kick()
MpKick ==
    /\ mp.pc = "called"
    /\ mp' = [Kicked(mp) EXCEPT !.pc = "pending"]
    /\ MpFrame

\* lines 100-105: the call of index i resolves, in any order among the running
\* ones: out[i] is set, then resolve(out) or kick()
MpThen ==
    /\ mp.pc = "pending"
    /\ \E i \in mp.running :
         LET p == [mp EXCEPT !.out[i] = Fn(ArrItem(i), i), !.active = @ - 1,
                             !.running = @ \ {i}]
         IN mp' = IF p.idx >= p.n /\ p.active = 0 THEN [p EXCEPT !.pc = "resolved"]
                  ELSE Kicked(p)
    /\ MpFrame

MpNext == MpKick \/ MpThen

\* every step that can be taken is taken: the executor runs and every fn call
\* resolves
SpecPool == MpInit /\ [][MpNext]_vars /\ WF_vars(MpNext)

\* C38: for every array length, 0 included, and every limit >= 1, when every
\* fn call resolves, mapPool eventually resolves with out[i] = fn(arr[i], i)
\* for each i, whatever the order in which the calls resolve
C38_PoolCompletes ==
    <>(mp.pc = "resolved" /\ \A i \in 1..mp.n : mp.out[i] = Fn(ArrItem(i), i))

====
